---- MODULE Spec2Model ----
(***************************************************************************)
(* Model of the IRIDE packaging and metadata scripts: the AOI and GSP      *)
(* lookup tables (iride_utils), and the batch scripts merge_burst,         *)
(* merge_tiles, index_bursts, index_tiles and process_trea, each run as a  *)
(* single sequential process over a small file system.                     *)
(***************************************************************************)
EXTENDS Integers, Sequences, FiniteSets, TLC

(***************************************************************************)
(* Python built-ins on str used by the scripts.  Strings are TLA+ strings; *)
(* every operation walks the characters, as the built-in does.             *)
(***************************************************************************)
LowerAlphabet == "abcdefghijklmnopqrstuvwxyz"

UpperAlphabet == "ABCDEFGHIJKLMNOPQRSTUVWXYZ"

CharAt(s, i) == SubSeq(s, i, i)

DropFirst(s, n) == SubSeq(s, n + 1, Len(s))

LowerChar(c) ==
  IF \E i \in 1..26 : CharAt(UpperAlphabet, i) = c
    THEN CharAt(LowerAlphabet, CHOOSE i \in 1..26 : CharAt(UpperAlphabet, i) = c)
    ELSE c

UpperChar(c) ==
  IF \E i \in 1..26 : CharAt(LowerAlphabet, i) = c
    THEN CharAt(UpperAlphabet, CHOOSE i \in 1..26 : CharAt(LowerAlphabet, i) = c)
    ELSE c

RECURSIVE Lower(_)
Lower(s) == IF Len(s) = 0 THEN "" ELSE LowerChar(CharAt(s, 1)) \o Lower(DropFirst(s, 1))

RECURSIVE Upper(_)
Upper(s) == IF Len(s) = 0 THEN "" ELSE UpperChar(CharAt(s, 1)) \o Upper(DropFirst(s, 1))

StartsWith(s, p) == Len(s) >= Len(p) /\ SubSeq(s, 1, Len(p)) = p

EndsWith(s, p) == Len(s) >= Len(p) /\ SubSeq(s, Len(s) - Len(p) + 1, Len(s)) = p

\* str.replace(old, new): every non-overlapping occurrence, left to right
RECURSIVE Replace(_, _, _)
Replace(s, old, new) ==
  IF Len(s) < Len(old) \/ Len(old) = 0 THEN s
  ELSE IF StartsWith(s, old)
    THEN new \o Replace(DropFirst(s, Len(old)), old, new)
    ELSE CharAt(s, 1) \o Replace(DropFirst(s, 1), old, new)

\* position of the first / last occurrence of the character c in s, 0 if none
RECURSIVE FindFrom(_, _, _)
FindFrom(s, c, i) ==
  IF i > Len(s) THEN 0 ELSE IF CharAt(s, i) = c THEN i ELSE FindFrom(s, c, i + 1)

RECURSIVE RFindFrom(_, _, _)
RFindFrom(s, c, i) ==
  IF i < 1 THEN 0 ELSE IF CharAt(s, i) = c THEN i ELSE RFindFrom(s, c, i - 1)

\* str.split(sep) for a one-character separator: the sequence of fields
RECURSIVE Split(_, _)
Split(s, sep) ==
  LET k == FindFrom(s, sep, 1)
  IN  IF k = 0 THEN <<s>>
      ELSE <<SubSeq(s, 1, k - 1)>> \o Split(DropFirst(s, k), sep)

\* sub in s, and re.search of a pattern without special characters
Occurs(s, sub, i) ==
  i + Len(sub) - 1 <= Len(s) /\ SubSeq(s, i, i + Len(sub) - 1) = sub

Contains(s, sub) == \E i \in 1..(Len(s) + 1) : Occurs(s, sub, i)

\* re.search of the pattern a.*b
ContainsThen(s, a, b) ==
  \E i \in 1..(Len(s) + 1) :
     /\ Occurs(s, a, i)
     /\ \E j \in (i + Len(a))..(Len(s) + 1) : Occurs(s, b, j)

Min(S) == CHOOSE x \in S : \A y \in S : x <= y

Max(S) == CHOOSE x \in S : \A y \in S : x >= y

\* the value None, the outcome of a call (a returned value or a raised
\* exception), and the outcome of a call not made yet
None == [py_none |-> TRUE]

Ret(v) == [kind |-> "return", exc |-> "", value |-> v]

Raise(e) == [kind |-> "raise", exc |-> e, value |-> None]

NotCalled == [kind |-> "none", exc |-> "", value |-> None]

VARIABLES
  aoi_arg,      \* argument of the latest call of get_aoi_info
  aoi_res,      \* outcome of that call
  aoi_probe,    \* an earlier call of the run, kept with its outcome
  gsp_code,     \* product code of the latest GSP lookups, as given
  gsp_dashed,   \* outcomes of the three GSP lookups for gsp_code
  gsp_undashed, \* outcomes of the three lookups for gsp_code without dashes
  script,       \* the script that runs
  args,         \* its command line arguments
  present,      \* paths of the input files and directories that exist
  index,        \* content of the shapefile given as first argument
  dirs,         \* directories that exist besides the inputs
  disk,         \* files written by the run: path -> content
  pc,           \* position of the run in main
  exc,          \* the exception that ended the run, if one did
  loc,          \* local variables of main
  gdf,          \* the dataframe main works on
  steps,        \* steps done so far for the current merge group
  made,         \* archives written so far, with the files read for each
  result,       \* outcome of the latest call of a utility function
  tree          \* the XML element that add_meta_field is given

aoiVars == <<aoi_arg, aoi_res, aoi_probe>>

gspVars == <<gsp_code, gsp_dashed, gsp_undashed>>

scriptVars ==
  <<script, args, present, index, dirs, disk, pc, exc, loc, gdf, steps, made,
    result, tree>>

vars == <<aoiVars, gspVars, scriptVars>>

(***************************************************************************)
(* Paths and the file system (os.path, os.makedirs, open, os.remove)       *)
(***************************************************************************)
PathJoin(a, b) ==
  IF StartsWith(b, "/") THEN b
  ELSE IF a = "" \/ EndsWith(a, "/") THEN a \o b
  ELSE a \o "/" \o b

Basename(p) == DropFirst(p, RFindFrom(p, "/", Len(p)))

Dirname(p) ==
  LET k == RFindFrom(p, "/", Len(p))
  IN  IF k = 0 THEN "" ELSE IF k = 1 THEN "/" ELSE SubSeq(p, 1, k - 1)

\* pathlib's suffix and stem of the last path component
Suffix(p) ==
  LET b == Basename(p)
      k == RFindFrom(b, ".", Len(b))
  IN  IF k <= 1 THEN "" ELSE DropFirst(b, k - 1)

Stem(p) ==
  LET b == Basename(p)
      k == RFindFrom(b, ".", Len(b))
  IN  IF k <= 1 THEN b ELSE SubSeq(b, 1, k - 1)

\* os.makedirs(d): d and every missing ancestor
MakeDirs(ds, d) ==
  ds \cup {SubSeq(d, 1, k) :
             k \in {j \in 1..Len(d) : j = Len(d) \/ CharAt(d, j + 1) = "/"}}

\* open(p, 'w') and the writers of the libraries need the parent directory
CanCreate(ds, p) == Dirname(p) \in ds \cup {"", "/"}

(***************************************************************************)
(* GeoDataFrames: a set of column names, the rows in order (each a         *)
(* function from the column names), and the CRS of the geometry column.    *)
(* A geometry is the rectangle [xmin, ymin, xmax, ymax] (a point has       *)
(* xmin = xmax and ymin = ymax).  A missing cell is NaN.                   *)
(***************************************************************************)
NaN == -1

StringColumns ==
  {"pid", "CODE", "Name", "Track", "Burst", "Subswath", "Orbit_Dir", "c_type",
   "Path", "start_date", "end_date", "Ortho"}

Geom(x0, y0, x1, y1) == [xmin |-> x0, ymin |-> y0, xmax |-> x1, ymax |-> y1]

Missing(col) ==
  IF col \in StringColumns THEN "NaN"
  ELSE IF col = "geometry" THEN Geom(NaN, NaN, NaN, NaN)
  ELSE NaN

\* the rows of df whose position is in I, in order
RECURSIVE Pick(_, _, _)
Pick(rows, I, i) ==
  IF i > Len(rows) THEN <<>>
  ELSE (IF i \in I THEN <<rows[i]>> ELSE <<>>) \o Pick(rows, I, i + 1)

\* DataFrame.rename(columns={old: new}) when old is a column
Rename(df, old, new) ==
  IF old \notin df.cols THEN df
  ELSE LET cols == (df.cols \ {old}) \cup {new}
       IN  [df EXCEPT
              !.cols = cols,
              !.rows = [i \in DOMAIN df.rows |->
                          [c \in cols |-> IF c = new THEN df.rows[i][old]
                                          ELSE df.rows[i][c]]]]

\* the columns named by digits only get the prefix D (Dyyyymmdd)
IsDigits(s) ==
  Len(s) > 0 /\ \A i \in 1..Len(s) : CharAt(s, i) \in
     {"0", "1", "2", "3", "4", "5", "6", "7", "8", "9"}

DatesConvention(df) ==
  LET new(c) == IF IsDigits(c) THEN "D" \o c ELSE c
      cols == {new(c) : c \in df.cols}
      old(d) == CHOOSE c \in df.cols : new(c) = d
  IN  [df EXCEPT !.cols = cols,
                  !.rows = [i \in DOMAIN df.rows |->
                              [d \in cols |-> df.rows[i][old(d)]]]]

DropColumn(df, col) ==
  LET cols == df.cols \ {col}
  IN  [df EXCEPT !.cols = cols,
                  !.rows = [i \in DOMAIN df.rows |-> [c \in cols |-> df.rows[i][c]]]]

\* the rows of df over the columns cols, NaN where df has no such column
Widen(df, cols) ==
  [i \in DOMAIN df.rows |->
     [c \in cols |-> IF c \in df.cols THEN df.rows[i][c] ELSE Missing(c)]]

RECURSIVE ConcatRows(_, _)
ConcatRows(frames, cols) ==
  IF frames = <<>> THEN <<>>
  ELSE Widen(Head(frames), cols) \o ConcatRows(Tail(frames), cols)

\* DataFrame._append / pandas.concat: the rows of the frames in list order
\* over the union of their columns
AppendFrames(frames) ==
  LET cols == UNION {frames[i].cols : i \in DOMAIN frames}
  IN  [cols |-> cols, rows |-> ConcatRows(frames, cols), crs |-> frames[1].crs]

concatenate_geodataframes(dataframes_list) == AppendFrames(dataframes_list)

DropDuplicatesKeepLast(df, subset) ==
  LET keep == {i \in DOMAIN df.rows :
                 \A j \in (i + 1)..Len(df.rows) :
                    \E c \in subset : df.rows[j][c] # df.rows[i][c]}
  IN  [df EXCEPT !.rows = Pick(df.rows, keep, 1)]

\* DataFrame.drop_duplicates(subset): of the rows equal on subset the first
\* is kept (NaN cells count as equal)
DropDuplicates(df, subset) ==
  LET keep == {i \in DOMAIN df.rows :
                 \A j \in 1..(i - 1) :
                    \E c \in subset : df.rows[j][c] # df.rows[i][c]}
  IN  [df EXCEPT !.rows = Pick(df.rows, keep, 1)]

\* GeoDataFrame.to_crs: EPSG:3035 coordinates carry a false easting and a
\* false northing that EPSG:4326 coordinates do not
FalseEasting == 40

FalseNorthing == 30

Shift(g, dx, dy) ==
  IF g.xmin = NaN THEN g
  ELSE Geom(g.xmin + dx, g.ymin + dy, g.xmax + dx, g.ymax + dy)

ToCrs(df, crs) ==
  IF df.crs = crs \/ "geometry" \notin df.cols THEN [df EXCEPT !.crs = crs]
  ELSE LET dx == IF crs = 3035 THEN FalseEasting ELSE 0 - FalseEasting
           dy == IF crs = 3035 THEN FalseNorthing ELSE 0 - FalseNorthing
       IN  [df EXCEPT
              !.crs = crs,
              !.rows = [i \in DOMAIN df.rows |->
                          [df.rows[i] EXCEPT !["geometry"] = Shift(@, dx, dy)]]]

\* GeoDataFrame.clip(mask): the rows whose geometry meets the mask, each
\* geometry cut to the mask
Meets(g, m) ==
  /\ g.xmin # NaN
  /\ g.xmin <= m.xmax /\ m.xmin <= g.xmax
  /\ g.ymin <= m.ymax /\ m.ymin <= g.ymax

Clip(df, m) ==
  LET keep == {i \in DOMAIN df.rows : Meets(df.rows[i]["geometry"], m)}
      cut(g) == Geom(Max({g.xmin, m.xmin}), Max({g.ymin, m.ymin}),
                     Min({g.xmax, m.xmax}), Min({g.ymax, m.ymax}))
      rows == Pick(df.rows, keep, 1)
  IN  [df EXCEPT !.rows = [i \in DOMAIN rows |->
                              [rows[i] EXCEPT !["geometry"] = cut(@)]]]

\* GeoDataFrame.total_bounds: <<x_min, y_min, x_max, y_max>>, NaN if no geometry
TotalBounds(df) ==
  LET gs == {df.rows[i]["geometry"] : i \in DOMAIN df.rows}
      ok == {g \in gs : g.xmin # NaN}
  IN  IF ok = {} THEN <<NaN, NaN, NaN, NaN>>
      ELSE <<Min({g.xmin : g \in ok}), Min({g.ymin : g \in ok}),
             Max({g.xmax : g \in ok}), Max({g.ymax : g \in ok})>>

(***************************************************************************)
(* iride_utils/aoi_info.py                                                 *)
(***************************************************************************)
AoiTable ==
  <<
    [names |-> {"nocera_terinese", "ntr", "nocera terinese"}, aoi_tag |-> "NTR", aoi_name |-> "A2 - Nocera Terinese"],
    [names |-> {"palermo", "pal"}, aoi_tag |-> "PAL", aoi_name |-> "Palermo"],
    [names |-> {"brennero", "brn"}, aoi_tag |-> "BRN", aoi_name |-> "Brennero Area"],
    [names |-> {"cortina", "crt"}, aoi_tag |-> "CRT", aoi_name |-> "Cortina"],
    [names |-> {"norcia", "nri"}, aoi_tag |-> "NRI", aoi_name |-> "Norcia"],
    [names |-> {"pistoia", "pst"}, aoi_tag |-> "PST", aoi_name |-> "Pistoia"],
    [names |-> {"mattinata", "mti"}, aoi_tag |-> "mti", aoi_name |-> "Mattinata"],
    [names |-> {"colli_albani", "coa"}, aoi_tag |-> "coa", aoi_name |-> "Colli ALbani Area"],
    [names |-> {"Vulcano", "vla"}, aoi_tag |-> "VLA", aoi_name |-> "Vulcano Island"],
    [names |-> {"calabria", "cal"}, aoi_tag |-> "CAL", aoi_name |-> "Calabria"],
    [names |-> {"sicilia", "sic"}, aoi_tag |-> "SIC", aoi_name |-> "Sicilia"],
    [names |-> {"basilicata", "bas"}, aoi_tag |-> "BAS", aoi_name |-> "Basilicata"],
    [names |-> {"puglia", "pug"}, aoi_tag |-> "PUG", aoi_name |-> "Puglia"],
    [names |-> {"campania", "cam"}, aoi_tag |-> "CAM", aoi_name |-> "Campania"],
    [names |-> {"molise", "mol"}, aoi_tag |-> "MOL", aoi_name |-> "Molise"],
    [names |-> {"abruzzo", "abr"}, aoi_tag |-> "ABR", aoi_name |-> "Abruzzo"],
    [names |-> {"lazio", "laz"}, aoi_tag |-> "LAZ", aoi_name |-> "Lazio"],
    [names |-> {"umbria", "umb"}, aoi_tag |-> "UMB", aoi_name |-> "Umbria"],
    [names |-> {"marche", "mar"}, aoi_tag |-> "MAR", aoi_name |-> "Marche"],
    [names |-> {"emilia_romagna", "era"}, aoi_tag |-> "ERA", aoi_name |-> "Emilia Romagna"],
    [names |-> {"toscana", "tos"}, aoi_tag |-> "TOS", aoi_name |-> "Toscana"],
    [names |-> {"lombardia", "lom"}, aoi_tag |-> "LOM", aoi_name |-> "Lombardia"],
    [names |-> {"piemonte", "pie"}, aoi_tag |-> "PIE", aoi_name |-> "Piemonte"],
    [names |-> {"sardegna", "sar"}, aoi_tag |-> "SAR", aoi_name |-> "Sardegna"],
    [names |-> {"trentino", "taa"}, aoi_tag |-> "TAA", aoi_name |-> "Trentino Alto Adige"],
    [names |-> {"veneto", "ven"}, aoi_tag |-> "VEN", aoi_name |-> "Veneto"],
    [names |-> {"friuli_venezia_giulia", "fvg"}, aoi_tag |-> "FVG", aoi_name |-> "Friuli Venezia Giulia"],
    [names |-> {"liguria", "lig"}, aoi_tag |-> "LIG", aoi_name |-> "Liguria"],
    [names |-> {"valle_d_aosta", "vda"}, aoi_tag |-> "VDA", aoi_name |-> "Valle d'Aosta"]
  >>

\* the names and tags the if/elif chain compares the argument with
AoiNames == UNION {AoiTable[i].names : i \in DOMAIN AoiTable}

get_aoi_info_fallback(aoi) ==
  LET low  == Lower(aoi)
      hits == {i \in DOMAIN AoiTable : low \in AoiTable[i].names}
  IN  IF hits = {}
        THEN Ret([aoi_tag |-> Upper(low), aoi_name |-> low])
        ELSE Ret([aoi_tag  |-> AoiTable[Min(hits)].aoi_tag,
                  aoi_name |-> AoiTable[Min(hits)].aoi_name])

get_aoi_info(aoi) ==
  LET low  == Lower(aoi)
      hits == {i \in DOMAIN AoiTable : low \in AoiTable[i].names}
  IN  IF hits = {}
        THEN Raise("ValueError")
        ELSE Ret([aoi_tag  |-> AoiTable[Min(hits)].aoi_tag,
                  aoi_name |-> AoiTable[Min(hits)].aoi_name])

\* arguments tried: every listed name and tag as written, in lower case,
\* in upper case and capitalised, and names that are not listed
Capitalize(s) == IF Len(s) = 0 THEN "" ELSE UpperChar(CharAt(s, 1)) \o Lower(DropFirst(s, 1))

AoiUnknown == {"", "roma", "sicily", "si", "sicilia "}

AoiArgs ==
  UNION {{n, Lower(n), Upper(n), Capitalize(n)} : n \in AoiNames} \cup AoiUnknown

AoiProbes == {"SIC", "Sicilia", "Vulcano", "vla", "roma"}

AoiIdle ==
  /\ aoi_arg = ""
  /\ aoi_res = NotCalled
  /\ aoi_probe = [arg |-> "", res |-> NotCalled]

CallGetAoiInfo(a) ==
  /\ aoi_arg' = a
  /\ aoi_res' = get_aoi_info(a)
  /\ aoi_probe' = IF aoi_probe.res = NotCalled /\ aoi_arg \in AoiProbes
                    THEN [arg |-> aoi_arg, res |-> aoi_res]
                    ELSE aoi_probe
  /\ UNCHANGED <<gspVars, scriptVars>>

(***************************************************************************)
(* iride_utils/gsp_description.py                                          *)
(***************************************************************************)
gsp_description(gsp_id) ==
  IF gsp_id \in {"S3-01-SNT-01", "S3-01-CSM-01", "S3-01-SAO-01", "S301SNT01",
                 "S301CSM01", "S301SAO01"}
    THEN "Single Geometry Deformation."
  ELSE IF gsp_id \in {"S3-01-SNT-02", "S3-01-CSM-02", "S3-01-SAO-02", "S301SNT02",
                      "S301CSM02", "S301SAO02"}
    THEN "Single Geometry Calibrated Deformation."
  ELSE IF gsp_id \in {"S3-01-SNT-03", "S3-01-CSM-03", "S3-01-SAO-03", "S301SNT03",
                      "S301CSM03", "S301SAO03"}
    THEN "2D Deformation East-West and Vertical Components."
  ELSE IF gsp_id \in {"S3-01-SNT-04", "S3-01-CSM-04", "S3-01-SAO-04", "S301SNT04",
                      "S301CSM04", "S301SAO04"}
    THEN "Active Displacement Areas."
  ELSE IF gsp_id \in {"S3-02-SNT-02", "S3-02-CSM-02", "S3-02-SAO-02", "S302SNT02",
                      "S302CSM02", "S302SAO02"}
    THEN "LOS velocities projected along the maximum slope."
  ELSE IF gsp_id \in {"S3-02-SNT-03", "S3-02-CSM-03", "S3-02-SAO-03", "S302SNT03",
                      "S302CSM03", "S302SAO03"}
    THEN "Spatial Anomaly maps."
  ELSE IF gsp_id \in {"S3-02-SNT-04", "S3-02-CSM-04", "S3-02-SAO-04", "S302SNT04",
                      "S302CSM04", "S302SAO04"}
    THEN "Temporal Anomaly Maps."
  ELSE IF gsp_id \in {"S3-02-SNT-05", "S3-02-CSM-05", "S3-02-SAO-05", "S302SNT05",
                      "S302CSM05", "S302SAO05"}
    THEN "Automatic identification of unstable slopes."
  ELSE IF gsp_id \in {"S3-03-CHA-01", "S303CHA01"}
    THEN "InSAR Statistical Indexes."
  ELSE IF gsp_id \in {"S3-03-CHA-02", "S303CHA02"}
    THEN "3D Velocity Decomposition."
  ELSE IF gsp_id \in {"S3-03-CHA-03", "S303CHA03"}
    THEN "Identification of Differential Deformation over Cultural Heritage Structures."
  ELSE IF gsp_id \in {"S3-03-CHA-04", "S303CHA04"}
    THEN "Temporal Anomaly Maps."
  ELSE IF gsp_id \in {"S3-03-CHA-05", "S303CHA05"}
    THEN "Intersection of spatio-temporal anomalies with exposed Cultural heritage."
  ELSE IF gsp_id \in {"S3-04-SNT-02", "S3-04-CSM-02", "S3-04-SAO-02", "S304SNT02",
                      "S304CSM02", "S304SAO02"}
    THEN "Active deformation areas close to infrastructures."
  ELSE IF gsp_id \in {"S3-04-SNT-03", "S3-04-CSM-03", "S3-04-SAO-03", "S304SNT03",
                      "S304CSM03", "S304SAO03"}
    THEN "Anomalous Deformation Areas based on acceleration analysis."
  ELSE IF gsp_id \in {"S3-05-ETQ-01", "S305ETQ01"}
    THEN "Single geometry calibrated deformations resampled on a medium resolution grid."
  ELSE IF gsp_id \in {"S3-05-ETQ-02", "S305ETQ02"}
    THEN "2D calibrated deformations: East-West and Vertical components."
  ELSE IF gsp_id \in {"S3-05-ETQ-03", "S305ETQ03"}
    THEN "Spatial clusterization based on temporal displacement models."
  ELSE IF gsp_id \in {"S3-05-ETQ-04", "S305ETQ04"}
    THEN "DInSAR-based co-seismic deformation."
  ELSE IF gsp_id \in {"S3-05-ETQ-05", "S305ETQ05"}
    THEN "Strategic assets single geometry deformations: non-calibrated and calibrated."
  ELSE IF gsp_id \in {"S3-05-ETQ-06", "S305ETQ06"}
    THEN "Strategic assets 2D deformations: East-West and vertical components."
  ELSE IF gsp_id \in {"S3-05-ETQ-07", "S305ETQ07"}
    THEN "Strategic assets PS/DS-based temporal anomalies."
  ELSE IF gsp_id \in {"S3-06-VOL-02", "S306VOL02"}
    THEN "Active Deformation Areas Perimeter."
  ELSE IF gsp_id \in {"S3-06-VOL-03", "S306VOL03"}
    THEN "Identification of Differential Deformation over Volcanic Areas."
  ELSE IF gsp_id \in {"S3-06-VOL-04", "S306VOL04"}
    THEN "Temporal Anomaly Maps."
  ELSE IF gsp_id \in {"S3-06-VOL-05", "S306VOL05"}
    THEN "Multi-sensors and multi-geometry Data Fusion."
  ELSE IF gsp_id \in {"S3-06-VOL-06", "S306VOL06"}
    THEN "Change Detection Maps."
  ELSE IF gsp_id \in {"S3-06-VOL-07", "S306VOL07"}
    THEN "InSAR Coherence Maps."
  ELSE IF gsp_id \in {"S3-06-VOL-08", "S306VOL08"}
    THEN "Intersection of spatio-temporal anomalies with exposed assets."
  ELSE IF gsp_id \in {"S3-07-OND-01", "S307OND01"}
    THEN "Single geometry calibrated deformations extracted for the period of interest."
  ELSE IF gsp_id \in {"S3-07-OND-02", "S307OND02"}
    THEN "2D calibrated deformations: East-West and Vertical components."
  ELSE IF gsp_id \in {"S3-07-OND-03", "S307OND03"}
    THEN "Landslide Spatial Anomalies."
  ELSE IF gsp_id \in {"S3-07-OND-04", "S307OND04"}
    THEN "Landslide Spatio-Temporal Anomalies."
  ELSE IF gsp_id \in {"S3-07-OND-05", "S307OND05"}
    THEN "Area of influence of active areas from spatial anomalies."
  ELSE IF gsp_id \in {"S3-07-OND-06", "S307OND06"}
    THEN "LOS velocities projected along the maximum slope."
  ELSE IF gsp_id \in {"S3-07-OND-07", "S307OND07"}
    THEN "GNSS time series projected along the PS/DS LOS."
  ELSE IF gsp_id \in {"S3-07-OND-08", "S307OND08"}
    THEN "Volcanic Spatial Statistics."
  ELSE IF gsp_id \in {"S3-07-OND-09", "S307OND09"}
    THEN "InSAR Coherence Maps."
  ELSE ""

gsp_metadata(gsp_id) ==
  IF gsp_id \in {"S3-01-SNT-01", "S3-01-CSM-01", "S3-01-SAO-01", "S301SNT01",
                 "S301CSM01", "S301SAO01"}
    THEN <<"CopDem">>
  ELSE IF gsp_id \in {"S3-01-SNT-02", "S3-01-CSM-02", "S3-01-SAO-02", "S301SNT02",
                      "S301CSM02", "S301SAO02"}
    THEN <<"CopDem">>
  ELSE IF gsp_id \in {"S3-01-SNT-03", "S3-01-CSM-03", "S3-01-SAO-03", "S301SNT03",
                      "S301CSM03", "S301SAO03"}
    THEN <<"CopDem">>
  ELSE IF gsp_id \in {"S3-01-SNT-04", "S3-01-CSM-04", "S3-01-SAO-04", "S301SNT04",
                      "S301CSM04", "S301SAO04"}
    THEN <<"CopDem", "OpenStreetMap">>
  ELSE IF gsp_id \in {"S3-02-SNT-02", "S3-02-CSM-02", "S3-02-SAO-02", "S302SNT02",
                      "S302CSM02", "S302SAO02"}
    THEN <<"Tinitaly-10">>
  ELSE IF gsp_id \in {"S3-02-SNT-04", "S3-02-CSM-04", "S3-02-SAO-04", "S302SNT04",
                      "S302CSM04", "S302SAO04"}
    THEN <<"Tinitaly-10">>
  ELSE IF gsp_id \in {"S3-02-SNT-05", "S3-02-CSM-05", "S3-02-SAO-05", "S302SNT05",
                      "S302CSM05", "S302SAO05"}
    THEN <<"Tinitaly-10">>
  ELSE IF gsp_id \in {"S3-04-SNT-02", "S3-04-CSM-02", "S3-04-SAO-03", "S304SNT02",
                      "S304CSM02", "S304SAO04", "S3-04-SNT-03", "S3-04-CSM-03",
                      "S3-04-SAO-03", "S304SNT03", "S304CSM03", "S304SAO03"}
    THEN <<"Tinitaly-10", "OpenStreetMap", "CopDem">>
  ELSE <<>>

gsp_d_type(gsp_id) ==
  IF gsp_id \in {"S3-01-SNT-01", "S3-01-CSM-01", "S3-01-SAO-01", "S301SNT01",
                 "S301CSM01", "S301SAO01", "S3-01-SNT-02", "S3-01-CSM-02",
                 "S3-01-SAO-02", "S301SNT02", "S301CSM02", "S301SAO02",
                 "S3-01-SNT-03", "S3-01-CSM-03", "S3-01-SAO-03", "S301SNT03",
                 "S301CSM03", "S301SAO03", "S3-02-SNT-02", "S3-02-CSM-02",
                 "S3-02-SAO-02", "S302SNT02", "S302CSM02", "S302SAO02",
                 "S3-02-SNT-04", "S3-02-CSM-04", "S3-02-SAO-04", "S302SNT04",
                 "S302CSM04", "S302SAO04", "S3-02-SNT-05", "S3-02-CSM-05",
                 "S3-02-SAO-05", "S302SNT05", "S302CSM05", "S302SAO05",
                 "S3-03-CHA-02", "S303CHA02", "S3-03-CHA-04", "S303CHA04",
                 "S3-04-SNT-02", "S3-04-CSM-02", "S3-04-SAO-03", "S304SNT02",
                 "S304CSM02", "S304SAO04", "S3-04-SNT-03", "S3-04-CSM-03",
                 "S3-04-SAO-03", "S304SNT03", "S304CSM03", "S304SAO03",
                 "S3-05-ETQ-01", "S305ETQ01", "S3-05-ETQ-02", "S305ETQ02",
                 "S3-05-ETQ-03", "S305ETQ03", "S3-05-ETQ-06", "S305ETQ06",
                 "S3-05-ETQ-07", "S305ETQ07", "S3-06-VOL-02", "S306VOL02",
                 "S3-06-VOL-04", "S306VOL04", "S3-06-VOL-05", "S306VOL05",
                 "S3-07-OND-01", "S307OND01", "S3-07-OND-02", "S307OND02",
                 "S3-07-OND-07", "S307OND07"}
    THEN "ESRI Shapefile (Geometry: Points) + CSV"
  ELSE IF gsp_id \in {"S3-01-SNT-04", "S3-01-CSM-04", "S3-01-SAO-04", "S301SNT04",
                      "S301CSM04", "S301SAO04", "S3-02-SNT-04", "S3-02-CSM-04",
                      "S3-02-SAO-04", "S302SNT04", "S302CSM04", "S302SAO04",
                      "S3-03-CHA-01", "S303CHA01", "S3-03-CHA-03", "S303CHA03",
                      "S3-03-CHA-05", "S303CHA05", "S3-06-VOL-02", "S306VOL02",
                      "S3-06-VOL-08", "S306VOL08", "S3-07-OND-06", "S307OND06",
                      "S3-07-OND-08", "S307OND08"}
    THEN "ESRI Shapefile (Geometry: Polygon)"
  ELSE IF gsp_id \in {"S3-05-ETQ-04", "S305ETQ04", "S3-06-VOL-06", "S306VOL06",
                      "S3-06-VOL-07", "S306VOL07"}
    THEN "GeoTiff disp. Map + XML"
  ELSE IF gsp_id \in {"S3-06-VOL-02", "S306VOL02", "S3-07-OND-03", "S307OND03",
                      "S3-07-OND-04", "S307OND04", "S3-07-OND-05", "S307OND05",
                      "S3-07-OND-09", "S307OND09"}
    THEN "ESRI Shapefile (Geometry: Polygon / Points) + CSV"
  ELSE IF gsp_id \in {"S3-06-VOL-08", "S306VOL08"}
    THEN "ESRI Shapefile (Geometry: Polygon / Polylines) + CSV"
  ELSE "NA"
\* product codes tried: every service, family and number, in the dashed form
GspServices == {"01", "02", "03", "04", "05", "06", "07"}

GspFamilies == {"SNT", "CSM", "SAO", "CHA", "ETQ", "VOL", "OND"}

GspNumbers == {"01", "02", "03", "04", "05", "06", "07", "08", "09"}

GspCodes ==
  {"S3-" \o s \o "-" \o f \o "-" \o n :
      s \in GspServices, f \in GspFamilies, n \in GspNumbers}

\* the undashed form of a code, as merge_burst and merge_tiles derive it
Undashed(code) == Replace(code, "-", "")

GspLookups(code) ==
  [description |-> gsp_description(code),
   metadata    |-> gsp_metadata(code),
   d_type      |-> gsp_d_type(code)]

GspIdle ==
  /\ gsp_code = ""
  /\ gsp_dashed = GspLookups("")
  /\ gsp_undashed = GspLookups("")

CallGsp(code) ==
  /\ gsp_code' = code
  /\ gsp_dashed' = GspLookups(code)
  /\ gsp_undashed' = GspLookups(Undashed(code))
  /\ UNCHANGED <<aoiVars, scriptVars>>

(***************************************************************************)
(* Input data: the product archives of the burst and tile directories,     *)
(* each with its member names, the dictionary of its metadata XML and the  *)
(* table of its CSV member; the index rows that refer to them; the clip    *)
(* polygon.                                                                *)
(***************************************************************************)
BurstDir == "/d/bursts"

TileDir == "/d/tiles"

ClipFile == "/d/aoi/clip.shp"

\* the polygon of ClipFile, in EPSG:4326
ClipPolygon == Geom(10, 10, 12, 11)

\* an XML element: its tag, its text and its children in document order
Leaf(tag, text) == [tag |-> tag, text |-> text, children |-> <<>>]

\* the root element of the metadata file of a product
Xml(prod, id_key, id) ==
  [tag |-> "GSP", text |-> "",
   children |-> <<Leaf("product_id", prod), Leaf(id_key, id),
                  Leaf("start_date", "2018-01-05"), Leaf("end_date", "2022-12-26"),
                  Leaf("provider", "TRE-A"), Leaf("production_date", "2024-02-01"),
                  Leaf("crs", "EPSG:3035")>>]

\* a table with the column names of the TRE-A products (CODE, LAT, LON and
\* one column per date, named by its digits)
TreaTable(points) ==
  [cols |-> {"CODE", "LAT", "LON", "easting", "northing", "20180105"},
   rows |-> [i \in DOMAIN points |->
               ("20180105" :> 0) @@
               [CODE |-> points[i][1], LAT |-> points[i][2], LON |-> points[i][3],
                easting |-> points[i][4], northing |-> points[i][5]]]]

\* a table with the standard column names
StdTable(points) ==
  [cols |-> {"pid", "latitude", "longitude", "easting", "northing"},
   rows |-> [i \in DOMAIN points |->
               [pid |-> points[i][1], latitude |-> points[i][2],
                longitude |-> points[i][3], easting |-> points[i][4],
                northing |-> points[i][5]]]]

Archive(dir, stem, xml, table) ==
  [path |-> PathJoin(dir, stem \o ".zip"),
   names |-> <<stem \o ".xml", stem \o ".csv">>, xml |-> xml, table |-> table]

B1 ==
  Archive(BurstDir, "ISS_S301SNT02_20180105_20221226_015A0123IW1C_01",
          Xml("S3-01-SNT-02", "burst_id", "015A0123IW1"),
          TreaTable(<<<<"a1", 45, 11, 50, 40>>, <<"a2", 46, 12, 51, 41>>>>))

B2 ==
  Archive(BurstDir, "ISS_S301SNT02_20180105_20221226_015A0124IW1C_01",
          Xml("S3-01-SNT-02", "burst_id", "015A0124IW1"),
          StdTable(<<<<"b1", 46, 12, 51, 41>>, <<"b2", 47, 13, 52, 42>>>>))

B3 ==
  Archive(BurstDir, "ISS_S301SNT01_20180105_20221226_015A0123IW1B_01",
          Xml("S3-01-SNT-01", "burst_id", "015A0123IW1"),
          TreaTable(<<<<"c1", 45, 11, 50, 40>>, <<"c2", 47, 13, 52, 42>>>>))

B4 ==
  Archive(BurstDir, "ISS_S301SNT02_20180105_20221226_117D0456IW2_01",
          Xml("S3-01-SNT-02", "burst_id", "117D0456IW2"),
          StdTable(<<<<"d1", 45, 12, 50, 41>>, <<"d2", 45, 12, 50, 41>>,
                   <<"d3", 46, 11, 51, 40>>>>))

T1 ==
  Archive(TileDir, "ISS_S301SNT03_20180105_20221226_E25N20V_01",
          Xml("S3-01-SNT-03", "tile_id", "E25N20"),
          StdTable(<<<<"v1", 45, 11, 50, 40>>, <<"v2", 46, 13, 52, 41>>>>))

T2 ==
  Archive(TileDir, "ISS_S301SNT03_20180105_20221226_E26N20V_01",
          Xml("S3-01-SNT-03", "tile_id", "E26N20"),
          StdTable(<<<<"w1", 46, 13, 52, 41>>, <<"w2", 47, 14, 53, 42>>>>))

T3 ==
  Archive(TileDir, "ISS_S301SNT03_20180105_20221226_E25N20E_01",
          Xml("S3-01-SNT-03", "tile_id", "E25N20"),
          StdTable(<<<<"e1", 45, 11, 50, 40>>, <<"e2", 46, 12, 51, 41>>>>))

\* a second delivery of the tile of T1
T4 ==
  Archive(TileDir, "ISS_S301SNT03_20190105_20231226_E25N20V_02",
          Xml("S3-01-SNT-03", "tile_id", "E25N20"),
          StdTable(<<<<"u1", 45, 11, 50, 40>>, <<"u2", 46, 13, 52, 41>>>>))

Archives == {B1, B2, B3, B4, T1, T2, T3, T4}

ArchiveAt(path) == CHOOSE a \in Archives : a.path = path

\* the rows an index of bursts can hold: one per archive of the burst
\* directory, and the placeholder of a burst without archive
BurstIndexCols ==
  {"Name", "Track", "Burst", "Subswath", "Orbit_Dir", "c_type", "geometry",
   "Path", "start_date", "end_date"}

BurstRow(track, burst, subswath, orbit, c_type, path, date0, date1) ==
  [Name |-> track \o "_" \o burst \o "_" \o subswath, Track |-> track,
   Burst |-> burst, Subswath |-> subswath, Orbit_Dir |-> orbit,
   c_type |-> c_type, geometry |-> Geom(9, 9, 12, 12), Path |-> path,
   start_date |-> date0, end_date |-> date1]

BurstIndexRows ==
  {BurstRow("015", "0123", "IW1", "A", "C", B1.path, "2018-01-05", "2022-12-26"),
   BurstRow("015", "0124", "IW1", "A", "C", B2.path, "2018-01-05", "2022-12-26"),
   BurstRow("015", "0123", "IW1", "A", "B", B3.path, "2018-01-05", "2022-12-26"),
   BurstRow("117", "0456", "IW2", "D", "None", B4.path, "2018-01-05", "2022-12-26"),
   BurstRow("117", "0457", "IW2", "None", "None", "None", "None", "None")}

\* the rows an index of tiles can hold, with the footprints in EPSG:3035
TileIndexCols == {"Name", "geometry", "Path", "Ortho", "start_date", "end_date"}

TileRow(name, g, ortho, path, date0, date1) ==
  [Name |-> name, geometry |-> g, Path |-> path, Ortho |-> ortho,
   start_date |-> date0, end_date |-> date1]

TileIndexRows ==
  {TileRow("t1", Geom(50, 40, 52, 42), "V", T1.path, "2018-01-05", "2022-12-26"),
   TileRow("t2", Geom(52, 40, 54, 42), "V", T2.path, "2018-01-05", "2022-12-26"),
   TileRow("t1", Geom(50, 40, 52, 42), "E", T3.path, "2018-01-05", "2022-12-26"),
   TileRow("t4", Geom(50, 38, 52, 40), "V", "None", "None", "None"),
   TileRow("t2", Geom(52, 40, 54, 42), "E", "None", "None", "None")}

\* the inputs of the index scripts: the AOI file, whose polygon is the
\* clip polygon; the footprints of the bursts (EPSG:4326) and of the tiles
\* (EPSG:3035); the content of the data directories as os.listdir gives it,
\* in one order or the other
AoiFile == "/d/aoi/sicilia.shp"

BurstFile == "/d/grid/bursts.shp"

TileFile == "/d/grid/tiles.shp"

BurstFootprint(track, burst, subswath, g) ==
  [Name |-> track \o "_" \o burst \o "_" \o subswath, Track |-> track,
   Burst |-> burst, Subswath |-> subswath, geometry |-> g]

BurstFootprints ==
  {BurstFootprint("015", "0123", "IW1", Geom(9, 9, 12, 12)),
   BurstFootprint("015", "0124", "IW1", Geom(9, 9, 12, 12)),
   BurstFootprint("117", "0456", "IW2", Geom(9, 9, 12, 12)),
   BurstFootprint("117", "0457", "IW2", Geom(9, 9, 12, 12)),
   BurstFootprint("044", "0001", "IW3", Geom(20, 20, 21, 21))}

TileFootprints ==
  {[Name |-> "t1", geometry |-> Geom(50, 40, 52, 42), overlap |-> 0],
   [Name |-> "t2", geometry |-> Geom(52, 40, 54, 42), overlap |-> 0],
   [Name |-> "t3", geometry |-> Geom(51, 39, 53, 41), overlap |-> 1],
   [Name |-> "t4", geometry |-> Geom(50, 38, 52, 40), overlap |-> 0],
   [Name |-> "t5", geometry |-> Geom(60, 50, 62, 52), overlap |-> 0]}

Reverse(s) == [i \in DOMAIN s |-> s[Len(s) + 1 - i]]

Listings(dir) ==
  LET l == IF dir = BurstDir
             THEN <<Basename(B1.path), Basename(B2.path), "notes.txt",
                    Basename(B3.path), Basename(B4.path)>>
           ELSE IF dir = TileDir
             THEN <<Basename(T1.path), Basename(T2.path), Basename(T3.path),
                    "notes.txt", Basename(T4.path)>>
           ELSE <<>>
  IN  {l, Reverse(l)}

\* the sequences of 1 .. n different elements of S: an index lists a file,
\* and the placeholder of a footprint, once
SeqsUpTo(S, n) ==
  UNION {{f \in [1..k -> S] : \A i, j \in 1..k : i # j => f[i] # f[j]} :
           k \in 1..n}

(***************************************************************************)
(* xml_utils.py and read_as_geodataframe.py                                *)
(***************************************************************************)
\* the file an archive of the input directories is on disk
ArchiveFile(a) ==
  [kind |-> "zip",
   members |-> <<[name |-> a.names[1], content |-> [kind |-> "xml", root |-> a.xml]],
                 [name |-> a.names[2], content |-> [kind |-> "csv", frame |-> a.table]]>>]

NoFile == [kind |-> "absent"]

\* the file at a path: a file of the run's file system, or an archive of
\* the input directories
FileAt(path) ==
  IF path \in DOMAIN disk THEN disk[path]
  ELSE IF \E a \in Archives : a.path = path THEN ArchiveFile(ArchiveAt(path))
  ELSE NoFile

\* the members of an archive whose name ends with a suffix, in member order
MembersWith(file, suffix) ==
  Pick(file.members,
       {i \in DOMAIN file.members : EndsWith(file.members[i].name, suffix)}, 1)

\* the text of an element without children; otherwise the dictionary of the
\* children by tag (the last child of a tag wins)
RECURSIVE xml_to_dict(_)
xml_to_dict(element) ==
  IF Len(element.children) = 0 THEN element.text
  ELSE LET kids == element.children
           tags == {kids[i].tag : i \in DOMAIN kids}
           last(t) == Max({i \in DOMAIN kids : kids[i].tag = t})
       IN  [t \in tags |-> xml_to_dict(kids[last(t)])]

\* a list that takes the '.xml' members in reverse order
extract_xml_reversed(zip_file_path) ==
  LET file == FileAt(zip_file_path)
      xmls == MembersWith(file, ".xml")
  IN  IF file.kind # "zip" THEN None
      ELSE IF \E i \in DOMAIN xmls : xmls[i].content.kind # "xml"
        THEN Raise("ParseError")
      ELSE [list |-> Reverse([i \in DOMAIN xmls |->
                                xml_to_dict(xmls[i].content.root)])]

\* the list of one dictionary per '.xml' member, in member order; None
\* (after a printed error) if the file is missing or is no zip archive; an
\* '.xml' member that is not well-formed raises ParseError
extract_xml_from_zip(zip_file_path) ==
  LET file == FileAt(zip_file_path)
      xmls == MembersWith(file, ".xml")
  IN  IF file.kind # "zip" THEN None
      ELSE IF \E i \in DOMAIN xmls : xmls[i].content.kind # "xml"
        THEN Raise("ParseError")
      ELSE [list |-> [i \in DOMAIN xmls |-> xml_to_dict(xmls[i].content.root)]]

\* pd.read_csv and the geometry from the columns easting and northing
read_csv_as_geodataframe(table) ==
  IF ~({"easting", "northing"} \subseteq table.cols) THEN Raise("AttributeError")
  ELSE Ret([cols |-> table.cols \cup {"geometry"},
            rows |-> [i \in DOMAIN table.rows |->
                        ("geometry" :> Geom(table.rows[i].easting,
                                            table.rows[i].northing,
                                            table.rows[i].easting,
                                            table.rows[i].northing))
                        @@ table.rows[i]],
            crs |-> 3035])

\* the first '.csv' member when the archive has a member <stem>.csv, the
\* first '.parquet' member otherwise
read_dset_from_zip(zip_path) ==
  LET file == FileAt(zip_path)
      csvs == MembersWith(file, ".csv")
      parquets == MembersWith(file, ".parquet")
  IN  IF file.kind = "absent" THEN Raise("FileNotFoundError")
      ELSE IF file.kind # "zip" THEN Raise("BadZipFile")
      ELSE IF \E i \in DOMAIN file.members :
                 file.members[i].name = Stem(zip_path) \o ".csv"
        THEN IF csvs[1].content.kind # "csv" THEN Raise("ParserError")
             ELSE read_csv_as_geodataframe(csvs[1].content.frame)
      ELSE IF Len(parquets) = 0 THEN Raise("FileNotFoundError")
      ELSE IF parquets[1].content.kind # "parquet" THEN Raise("ArrowInvalid")
      ELSE Ret(parquets[1].content.frame)

\* GeoDataFrame.to_crs of a frame that was read: a frame without CRS cannot
\* be transformed
ToCrsOf(read, crs) ==
  IF read.kind = "raise" THEN read
  ELSE IF read.value.crs = 0 THEN Raise("ValueError")
  ELSE Ret(ToCrs(read.value, crs))

\* a file read as the kind its extension names
ReadFile(file, kind) ==
  IF file.kind = "absent" THEN Raise("FileNotFoundError")
  ELSE IF file.kind # kind THEN Raise("DataSourceError")
  ELSE Ret(file.frame)

\* the frame of a file of the kind its extension names
ReadKind(path, kind) == ReadFile(FileAt(path), kind)

\* line 75: the geometry columns of the table that was read
CsvFrame(read) ==
  IF read.kind = "raise" THEN read ELSE read_csv_as_geodataframe(read.value)

\* the CRS that the file of a frame declares
SetCrs(read, crs) ==
  IF read.kind = "raise" THEN read ELSE Ret([read.value EXCEPT !.crs = crs])

\* lines 72-87: the read that the extension selects; "unrecognised" is the
\* default case
ReadBySuffix(path) ==
  IF Suffix(path) = ".zip" THEN ToCrsOf(read_dset_from_zip(path), 3035)
  ELSE IF Suffix(path) = ".csv" THEN CsvFrame(ReadKind(path, "csv"))
  ELSE IF Suffix(path) = ".shp"
    THEN ToCrsOf(SetCrs(ReadKind(path, "shp"), 4326), 3035)
  ELSE IF Suffix(path) = ".parquet"
    THEN ToCrsOf(ReadKind(path, "parquet"), 3035)
  ELSE Ret(None)

\* the extensions with a case of their own
KnownSuffixes == {".zip", ".csv", ".shp", ".parquet"}

\* lines 88-90: the exception of a failed read is logged, None is returned
NoneIfRaised(read) == IF read.kind = "raise" THEN None ELSE read.value

\* a read that lets the exception of a failed read through
read_as_geodataframe_raising(path) ==
  IF ReadBySuffix(path).kind = "raise" THEN ReadBySuffix(path)
  ELSE ReadBySuffix(path).value

\* a read that raises for an extension without a case
read_as_geodataframe_strict(path) ==
  IF Suffix(path) \notin KnownSuffixes THEN Raise("NotImplementedError")
  ELSE IF ReadBySuffix(path).kind = "raise" THEN None
  ELSE ReadBySuffix(path).value

\* lines 72-90: the frame read; None for an unknown extension and, after
\* the logged error, when the read fails
read_as_geodataframe(path) == NoneIfRaised(ReadBySuffix(path))

rename_columns(df) ==
  Rename(Rename(Rename(df, "LAT", "latitude"), "LON", "longitude"), "CODE", "pid")

(***************************************************************************)
(* State shared by the scripts                                             *)
(***************************************************************************)
EmptyFrame == [cols |-> {}, rows |-> <<>>, crs |-> 0]

\* the local variables of main that live across the steps of a run
LocInit ==
  [aoi_tag |-> "", out_dir |-> "", frame |-> EmptyFrame, keys |-> <<>>,
   ki |-> 1, ci |-> 1, rows |-> <<>>, ref |-> None, orbit_dir |-> "",
   in_start_date |-> "", in_end_date |-> "", read |-> <<>>,
   concat |-> EmptyFrame, out_f_name |-> "", out_file |-> "",
   metadata_f_name |-> "", metadata_path |-> "", listing |-> <<>>,
   lists |-> <<>>, aoi_tiles_v |-> EmptyFrame, aoi_tiles_e |-> EmptyFrame]

\* no element at hand
NoTree == [tag |-> "", text |-> "", children |-> <<>>]

ScriptIdle ==
  /\ script = ""
  /\ args = [index_file |-> "", out_dir |-> "", clip_aoi |-> "", format |-> ""]
  /\ present = {}
  /\ index = EmptyFrame
  /\ dirs = {}
  /\ disk = <<>>
  /\ pc = "idle"
  /\ exc = ""
  /\ loc = LocInit
  /\ gdf = EmptyFrame
  /\ steps = <<>>
  /\ made = <<>>
  /\ result = NotCalled
  /\ tree = NoTree

\* os.path.exists and os.path.isdir
ExistsAlways(p) == TRUE

Exists(p) == p \in present \/ p \in dirs \/ p \in DOMAIN disk

IsDir(p) == p \in dirs

Column(rows, c) == [i \in DOMAIN rows |-> rows[i][c]]

\* Series.unique(): the values in order of first appearance
Unique(s) == Pick(s, {i \in DOMAIN s : \A j \in 1..(i - 1) : s[j] # s[i]}, 1)

\* the rows of a frame that satisfy a condition, as df[df[col] == v] selects
Where(rows, Test(_)) == Pick(rows, {i \in DOMAIN rows : Test(rows[i])}, 1)

\* the subscript [0] of what extract_xml_from_zip returned: None is not
\* subscriptable, an empty list has no first element, an exception of the
\* call goes through
FirstOf(extracted) ==
  IF extracted = None THEN Raise("TypeError")
  ELSE IF "list" \notin DOMAIN extracted THEN extracted
  ELSE IF Len(extracted.list) = 0 THEN Raise("IndexError")
  ELSE Ret(extracted.list[1])

\* extract_xml_from_zip(path)[0]
FirstXml(path) == FirstOf(extract_xml_from_zip(path))

\* the files written for the merged data in the chosen output format: the
\* ESRI Shapefile driver writes the .shp with its companion files
ShpCompanions == {".shx", ".dbf", ".prj", ".cpg"}

DataFiles(format, out_dir, out_f_name, frame) ==
  IF Lower(format) = "parquet"
    THEN PathJoin(out_dir, out_f_name \o ".parquet")
           :> [kind |-> "parquet", frame |-> frame]
  ELSE IF Lower(format) = "shp"
    THEN [p \in {PathJoin(out_dir, out_f_name \o e) : e \in {".shp"} \cup ShpCompanions}
            |-> [kind |-> DropFirst(Suffix(p), 1), frame |-> ToCrs(frame, 4326)]]
  ELSE PathJoin(out_dir, out_f_name \o ".csv")
         :> [kind |-> "csv",
             frame |-> IF "geometry" \in frame.cols
                         THEN DropColumn(frame, "geometry") ELSE frame]

DataFile(format, out_dir, out_f_name) ==
  PathJoin(out_dir, out_f_name \o "." \o
             (IF Lower(format) \in {"parquet", "shp"} THEN Lower(format) ELSE "csv"))

\* os.remove of the files ps
Removed(d, ps) == [p \in DOMAIN d \ ps |-> d[p]]

\* lines 17-55: the texts of input_id, version and description that a
\* dataset name stands for; none for a name that is not recognised
MetaTexts(dataset) ==
  IF dataset \in {"TINITALY", "Tinitaly", "Tinitaly-10"}
    THEN <<"S3-NEO-I01", "Tinitaly-10",
           "Tarquini S., I. Isola, M. Favalli, A. Battistini,"
             \o "G. Dotta (2023). TINITALY, a digital elevation model "
             \o "of Italy with a 10 meters cell size (Version 1.1). "
             \o "Istituto Nazionale di Geofisica e Vulcanologia (INGV). "
             \o "https://doi.org/10.13127/tinitaly/1.1.">>
  ELSE IF dataset \in {"OpenStreetMap", "OSM"}
    THEN <<"S3-NEO-I09", "OpenStreetMap",
           "OpenStreetMap (Version 1.0). OpenStreetMap "
             \o "Foundation. https://doi.org/10.13127/osm/1.0.">>
  ELSE IF dataset \in {"Copernicus", "CopDem"}
    THEN <<"S3-NEO-I01", "Cop-DEM - Resolution (m) 30 x 30",
           "Copernicus Digital Elevation Model (DEM) (Version 1.0). "
             \o "https://spacedata.copernicus.eu/collections/"
             \o "copernicus-digital-elevation-model.">>
  ELSE <<>>

\* an <input> element whose first child is the version
add_meta_field_version_first(children, dataset) ==
  IF MetaTexts(dataset) = <<>> THEN Raise("ValueError")
  ELSE Ret(Append(children,
         [tag |-> "input", text |-> "",
          children |-> <<Leaf("version", MetaTexts(dataset)[2]),
                         Leaf("input_id", MetaTexts(dataset)[1]),
                         Leaf("description", MetaTexts(dataset)[3])>>]))

\* add_meta_field(tree, dataset): the children of tree afterwards; each
\* ET.SubElement appends a child to its parent
add_meta_field(children, dataset) ==
  IF MetaTexts(dataset) = <<>> THEN Raise("ValueError")
  ELSE Ret(Append(children,
         [tag |-> "input", text |-> "",
          children |-> <<Leaf("input_id", MetaTexts(dataset)[1]),
                         Leaf("version", MetaTexts(dataset)[2]),
                         Leaf("description", MetaTexts(dataset)[3])>>]))

RECURSIVE MetaInputs(_, _)
MetaInputs(children, meta_data) ==
  IF meta_data = <<>> THEN Ret(children)
  ELSE IF add_meta_field(children, Head(meta_data)).kind = "raise"
    THEN add_meta_field(children, Head(meta_data))
  ELSE MetaInputs(add_meta_field(children, Head(meta_data)).value, Tail(meta_data))

SENSOR == "SNT"

(***************************************************************************)
(* merge_burst.py: main                                                    *)
(***************************************************************************)
CTypesBFirst == <<"B", "C", "None">>

CTypes == <<"C", "B", "None">>

\* lines 94-117: the checks, the output directories, the index, the tracks
MB_Start ==
  /\ script = "merge_burst" /\ pc = "start"
  /\ IF ~Exists(args.index_file)
       THEN /\ pc' = "done"
            /\ UNCHANGED <<dirs, loc, exc>>
       ELSE LET ds == IF Exists(args.out_dir) THEN dirs
                      ELSE MakeDirs(dirs, args.out_dir)
                ps == Split(args.index_file, "/")
                mask_name == Replace(ps[Len(ps)], ".shp", "")
                aoi_info == get_aoi_info(mask_name)
            IN  IF aoi_info.kind = "raise"
                  THEN /\ pc' = "raised" /\ exc' = aoi_info.exc
                       /\ dirs' = ds
                       /\ UNCHANGED loc
                  ELSE /\ dirs' = MakeDirs(ds, PathJoin(args.out_dir,
                                                       aoi_info.value.aoi_tag))
                       /\ loc' = [loc EXCEPT
                             !.aoi_tag = aoi_info.value.aoi_tag,
                             !.out_dir = PathJoin(args.out_dir,
                                                  aoi_info.value.aoi_tag),
                             !.frame = index,
                             !.keys = Unique(Column(index.rows, "Track")),
                             !.ki = 1, !.ci = 1]
                       /\ pc' = "group"
                       /\ UNCHANGED exc
  /\ UNCHANGED <<aoiVars, gspVars, tree, result, script, args, present, index, disk, gdf, steps, made>>

\* lines 120-159: the next (track, c_type) pair; a pair without burst file
\* is skipped, otherwise the metadata of its first burst are read
MB_Group ==
  /\ script = "merge_burst" /\ pc = "group"
  /\ IF loc.ki > Len(loc.keys)
       THEN /\ pc' = "done"
            /\ UNCHANGED <<loc, exc, steps>>
       ELSE LET track == loc.keys[loc.ki]
                c_type == CTypes[loc.ci]
                track_gdf_t == Where(loc.frame.rows, LAMBDA r : r["Track"] = track)
                track_gdf_c ==
                  Where(Where(track_gdf_t, LAMBDA r : r["Path"] # "None"),
                        LAMBDA r : r["c_type"] = c_type)
                xml == FirstXml(track_gdf_c[1]["Path"])
            IN  IF Len(track_gdf_c) = 0
                  THEN /\ loc' = IF loc.ci < Len(CTypes)
                                   THEN [loc EXCEPT !.ci = @ + 1]
                                   ELSE [loc EXCEPT !.ki = @ + 1, !.ci = 1]
                       /\ pc' = "group"
                       /\ UNCHANGED <<exc, steps>>
                ELSE IF xml.kind = "raise"
                  THEN /\ pc' = "raised" /\ exc' = xml.exc
                       /\ UNCHANGED <<loc, steps>>
                  ELSE /\ loc' = [loc EXCEPT
                             !.rows = track_gdf_c, !.ref = xml.value,
                             !.in_start_date = Replace(xml.value.start_date, "-", ""),
                             !.in_end_date = Replace(xml.value.end_date, "-", ""),
                             !.orbit_dir = track_gdf_c[1]["Orbit_Dir"]]
                       /\ steps' = <<>>
                       /\ pc' = "load"
                       /\ UNCHANGED exc
  /\ UNCHANGED <<aoiVars, gspVars, tree, result, script, args, present, index, dirs, disk, gdf, made>>

\* lines 161-168: every burst file of the group is read, its columns are
\* renamed, and the frames are concatenated
MB_Load ==
  /\ script = "merge_burst" /\ pc = "load"
  /\ LET paths == Column(loc.rows, "Path")
         frames == [i \in DOMAIN paths |-> read_as_geodataframe(paths[i])]
         merged == concatenate_geodataframes(
                     [i \in DOMAIN frames |-> rename_columns(frames[i])])
     IN  IF \E i \in DOMAIN frames : frames[i] = None
           THEN /\ pc' = "raised" /\ exc' = "AttributeError"
                /\ UNCHANGED <<loc, gdf, steps>>
           ELSE /\ gdf' = merged
                /\ loc' = [loc EXCEPT !.read = paths, !.concat = merged]
                /\ steps' = Append(steps, "load")
                /\ pc' = "dedup"
                /\ UNCHANGED exc
  /\ UNCHANGED <<aoiVars, gspVars, tree, result, script, args, present, index, dirs, disk, made>>

\* lines 170-172
MB_Dedup ==
  /\ script = "merge_burst" /\ pc = "dedup"
  /\ IF {"latitude", "longitude"} \subseteq gdf.cols
       THEN /\ gdf' = DropDuplicates(gdf, {"latitude", "longitude"})
            /\ steps' = Append(steps, "dedup")
            /\ pc' = "clip"
            /\ UNCHANGED exc
       ELSE /\ pc' = "raised" /\ exc' = "KeyError"
            /\ UNCHANGED <<gdf, steps>>
  /\ UNCHANGED <<aoiVars, gspVars, tree, result, script, args, present, index, dirs, disk, loc, made>>

\* the polygon of the clip file in the CRS crs
ClipMask(crs) ==
  ToCrs([cols |-> {"geometry"}, rows |-> <<[geometry |-> ClipPolygon]>>,
         crs |-> 4326], crs).rows[1]["geometry"]

MB_ClipSkipped ==
  /\ script = "merge_burst" /\ pc = "clip"
  /\ pc' = "write"
  /\ UNCHANGED <<aoiVars, gspVars, tree, result, script, args, present, index, dirs, disk,
                 exc, loc, gdf, steps, made>>

\* lines 174-183: the optional clip (args.clip_aoi is "" when not given)
MB_Clip ==
  /\ script = "merge_burst" /\ pc = "clip"
  /\ LET clipped == IF args.clip_aoi # "" THEN Clip(gdf, ClipMask(gdf.crs)) ELSE gdf
     IN  IF "pid" \in gdf.cols
           THEN /\ gdf' = clipped
                /\ steps' = IF args.clip_aoi # "" THEN Append(steps, "clip") ELSE steps
                /\ pc' = "write"
                /\ UNCHANGED exc
           ELSE /\ pc' = "raised" /\ exc' = "KeyError"
                /\ UNCHANGED <<gdf, steps>>
  /\ UNCHANGED <<aoiVars, gspVars, tree, result, script, args, present, index, dirs, disk, loc, made>>

MB_OutFName ==
  "ISS_" \o Replace(loc.ref.product_id, "-", "") \o "_" \o loc.in_start_date
    \o "_" \o loc.in_end_date \o "_" \o loc.keys[loc.ki] \o loc.aoi_tag
    \o loc.orbit_dir \o (IF CTypes[loc.ci] = "None" THEN "" ELSE CTypes[loc.ci])
    \o "_01"

\* lines 185-217: the merged data are written in the chosen format
MB_Write ==
  /\ script = "merge_burst" /\ pc = "write"
  /\ disk' = DataFiles(args.format, loc.out_dir, MB_OutFName,
                       DatesConvention(gdf)) @@ disk
  /\ loc' = [loc EXCEPT !.out_f_name = MB_OutFName,
                        !.out_file = DataFile(args.format, loc.out_dir, MB_OutFName)]
  /\ gdf' = IF Lower(args.format) = "shp"
              THEN ToCrs(DatesConvention(gdf), 4326) ELSE DatesConvention(gdf)
  /\ steps' = Append(steps, "write")
  /\ pc' = "xml"
  /\ UNCHANGED <<aoiVars, gspVars, tree, result, script, args, present, index, dirs, exc, made>>

MB_MetadataFNameNoType ==
  "ISS_" \o Replace(loc.ref.product_id, "-", "") \o "_" \o loc.in_start_date
    \o "_" \o loc.in_end_date \o "_" \o loc.keys[loc.ki] \o loc.aoi_tag
    \o loc.orbit_dir \o "_01.xml"

MB_MetadataFName ==
  "ISS_" \o Replace(loc.ref.product_id, "-", "") \o "_" \o loc.in_start_date
    \o "_" \o loc.in_end_date \o "_" \o loc.keys[loc.ki] \o loc.aoi_tag
    \o loc.orbit_dir \o (IF CTypes[loc.ci] = "None" THEN "" ELSE CTypes[loc.ci])
    \o "_01.xml"

\* lines 230-243: the exterior ring of the envelope of the data; the
\* envelope of data without extent in x or in y is a point or a line, which
\* has no exterior
Envelope(b) ==
  IF b[1] = b[3] \/ b[2] = b[4] THEN Raise("AttributeError")
  ELSE Ret(<<<<b[1], b[2]>>, <<b[3], b[2]>>, <<b[3], b[4]>>, <<b[1], b[4]>>,
             <<b[1], b[2]>>>>)

\* a <gsp> element that records every burst as a calibrated product
MB_GspElementCalibrated(path) ==
  LET p_f_name == Split(Stem(path), "_")
      gsp_id_in == "S301" \o SENSOR \o "02"
  IN  [tag |-> "gsp", gsp_id |-> gsp_id_in,
       product_id |->
         Replace(Replace(Stem(path), p_f_name[2], gsp_id_in),
                 p_f_name[5], SubSeq(p_f_name[5], 1, Len(p_f_name[5]) - 1)),
       burst_id |-> FirstXml(path).value.burst_id,
       description |-> gsp_description(gsp_id_in)]

\* lines 301-338: the <gsp> element of one burst file of the group
MB_GspElement(path) ==
  LET p_f_name == Split(Stem(path), "_")
      gsp_id_in == IF EndsWith(p_f_name[5], "B")
                     THEN "S301" \o SENSOR \o "01" ELSE "S301" \o SENSOR \o "02"
  IN  [tag |-> "gsp", gsp_id |-> gsp_id_in,
       product_id |->
         Replace(Replace(Stem(path), p_f_name[2], gsp_id_in),
                 p_f_name[5], SubSeq(p_f_name[5], 1, Len(p_f_name[5]) - 1)),
       burst_id |-> FirstXml(path).value.burst_id,
       description |-> gsp_description(gsp_id_in)]

\* lines 245-338: the tree of the metadata file
MB_Root(frame) ==
  [gsp_id |-> loc.ref.product_id,
   product_id |-> Replace(loc.out_f_name, ".csv", ""),
   description |-> gsp_description(loc.ref.product_id),
   sensor_id |-> SENSOR,
   track_id |-> loc.keys[loc.ki],
   provider |-> loc.ref.provider,
   production_date |-> Replace(loc.ref.production_date, "-", ""),
   start_date |-> Replace(loc.ref.start_date, "-", ""),
   end_date |-> Replace(loc.ref.end_date, "-", ""),
   aoi |-> loc.aoi_tag,
   bbox |-> TotalBounds(frame),
   geometry |-> Envelope(TotalBounds(frame)).value,
   crs |-> loc.ref.crs,
   dataset |-> MetaInputs(<<>>, gsp_metadata(loc.ref.product_id)).value
                 \o [i \in DOMAIN loc.rows |-> MB_GspElement(loc.rows[i]["Path"])]]

\* lines 219-347: the data go to EPSG:4326, the metadata tree is built from
\* them and written
MB_Xml ==
  /\ script = "merge_burst" /\ pc = "xml"
  /\ LET metadata_path == PathJoin(loc.out_dir, MB_MetadataFName)
     IN  IF Envelope(TotalBounds(ToCrs(gdf, 4326))).kind = "raise"
           THEN /\ pc' = "raised" /\ exc' = "AttributeError"
                /\ gdf' = ToCrs(gdf, 4326)
                /\ UNCHANGED <<disk, loc, steps>>
         ELSE IF MetaInputs(<<>>, gsp_metadata(loc.ref.product_id)).kind = "raise"
           THEN /\ pc' = "raised" /\ exc' = "ValueError"
                /\ gdf' = ToCrs(gdf, 4326)
                /\ UNCHANGED <<disk, loc, steps>>
         ELSE IF ~CanCreate(dirs, metadata_path)
           THEN /\ pc' = "raised" /\ exc' = "FileNotFoundError"
                /\ gdf' = ToCrs(gdf, 4326)
                /\ UNCHANGED <<disk, loc, steps>>
           ELSE /\ gdf' = ToCrs(gdf, 4326)
                /\ disk' = (metadata_path :>
                              [kind |-> "xml", root |-> MB_Root(ToCrs(gdf, 4326))])
                           @@ disk
                /\ loc' = [loc EXCEPT !.metadata_f_name = MB_MetadataFName,
                                      !.metadata_path = metadata_path]
                /\ steps' = Append(steps, "xml")
                /\ pc' = "zip"
                /\ UNCHANGED exc
  /\ UNCHANGED <<aoiVars, gspVars, tree, result, script, args, present, index, dirs, made>>

\* zipfile.ZipFile(zip_name, 'w') with the members written from the files
\* srcs under the names arcnames
ZipOf(d, srcs, arcnames) ==
  [kind |-> "zip",
   members |-> [i \in DOMAIN srcs |-> [name |-> arcnames[i], content |-> d[srcs[i]]]]]

\* lines 349-355
MB_Zip ==
  /\ script = "merge_burst" /\ pc = "zip"
  /\ LET zip_name == Replace(loc.metadata_path, ".xml", ".zip")
         srcs == <<loc.metadata_path, loc.out_file>>
     IN  IF CanCreate(dirs, zip_name) /\ \A i \in DOMAIN srcs : srcs[i] \in DOMAIN disk
           THEN /\ disk' = (zip_name :>
                              ZipOf(disk, srcs, <<loc.metadata_f_name,
                                                  Basename(loc.out_file)>>))
                           @@ disk
                /\ made' = Append(made, [key |-> <<loc.keys[loc.ki], CTypes[loc.ci]>>,
                                         zip |-> zip_name, read |-> loc.read])
                /\ steps' = Append(steps, "zip")
                /\ pc' = "remove"
                /\ UNCHANGED exc
           ELSE /\ pc' = "raised" /\ exc' = "FileNotFoundError"
                /\ UNCHANGED <<disk, made, steps>>
  /\ UNCHANGED <<aoiVars, gspVars, tree, result, script, args, present, index, dirs, loc, gdf>>

\* lines 356-358, and the step to the next (track, c_type) pair
MB_Remove ==
  /\ script = "merge_burst" /\ pc = "remove"
  /\ disk' = Removed(disk, {loc.metadata_path, loc.out_file})
  /\ steps' = Append(steps, "remove")
  /\ loc' = IF loc.ci < Len(CTypes) THEN [loc EXCEPT !.ci = @ + 1]
            ELSE [loc EXCEPT !.ki = @ + 1, !.ci = 1]
  /\ pc' = "group"
  /\ UNCHANGED <<aoiVars, gspVars, tree, result, script, args, present, index, dirs, exc, gdf, made>>

MergeBurstNext ==
  \/ MB_Start \/ MB_Group \/ MB_Load \/ MB_Dedup \/ MB_Clip
  \/ MB_Write \/ MB_Xml \/ MB_Zip \/ MB_Remove

(***************************************************************************)
(* merge_tiles.py: main                                                    *)
(***************************************************************************)
Orthos == <<"V", "E">>

\* lines 89-118: the checks, the index without its 'None' paths, the
\* output directories
MT_Start ==
  /\ script = "merge_tiles" /\ pc = "start"
  /\ IF ~Exists(args.index_file)
       THEN /\ pc' = "done"
            /\ UNCHANGED <<dirs, loc, exc>>
       ELSE LET ds == IF Exists(args.out_dir) THEN dirs
                      ELSE MakeDirs(dirs, args.out_dir)
                rows == Where(index.rows, LAMBDA r : r["Path"] # "None")
                ps == Split(args.index_file, "/")
                mask_name == Replace(ps[Len(ps)], ".shp", "")
                aoi_info == get_aoi_info(mask_name)
            IN  IF Len(rows) = 0
                  THEN /\ pc' = "done"
                       /\ dirs' = ds
                       /\ UNCHANGED <<loc, exc>>
                ELSE IF aoi_info.kind = "raise"
                  THEN /\ pc' = "raised" /\ exc' = aoi_info.exc
                       /\ dirs' = ds
                       /\ UNCHANGED loc
                  ELSE /\ dirs' = MakeDirs(ds, PathJoin(args.out_dir,
                                                       aoi_info.value.aoi_tag))
                       /\ loc' = [loc EXCEPT
                             !.aoi_tag = aoi_info.value.aoi_tag,
                             !.out_dir = PathJoin(args.out_dir,
                                                  aoi_info.value.aoi_tag),
                             !.frame = [index EXCEPT !.rows = rows],
                             !.keys = Orthos, !.ki = 1]
                       /\ pc' = "group"
                       /\ UNCHANGED exc
  /\ UNCHANGED <<aoiVars, gspVars, tree, result, script, args, present, index, disk, gdf, steps, made>>

\* lines 119-143: the next Ortho value; its first tile is read and gives
\* the metadata and the dates of the merged product
MT_Group ==
  /\ script = "merge_tiles" /\ pc = "group"
  /\ IF loc.ki > Len(loc.keys)
       THEN /\ pc' = "done"
            /\ UNCHANGED <<loc, exc, steps, gdf>>
       ELSE LET ortho == loc.keys[loc.ki]
                gdf_ortho == Where(loc.frame.rows, LAMBDA r : r["Ortho"] = ortho)
                ft_path == gdf_ortho[1]["Path"]
                xml == FirstXml(ft_path)
                fields == Split(Stem(ft_path), "_")
            IN  IF Len(gdf_ortho) = 0
                  THEN /\ loc' = [loc EXCEPT !.ki = @ + 1]
                       /\ pc' = "group"
                       /\ UNCHANGED <<exc, steps, gdf>>
                ELSE IF read_as_geodataframe(ft_path) = None
                  THEN /\ pc' = "raised" /\ exc' = "AttributeError"
                       /\ UNCHANGED <<loc, steps, gdf>>
                ELSE IF xml.kind = "raise" \/ Len(fields) < 4
                  THEN /\ pc' = "raised"
                       /\ exc' = IF xml.kind = "raise" THEN xml.exc ELSE "IndexError"
                       /\ gdf' = rename_columns(read_as_geodataframe(ft_path))
                       /\ UNCHANGED <<loc, steps>>
                  ELSE /\ gdf' = rename_columns(read_as_geodataframe(ft_path))
                       /\ loc' = [loc EXCEPT
                             !.rows = gdf_ortho, !.ref = xml.value,
                             !.in_start_date = fields[3],
                             !.in_end_date = fields[4]]
                       /\ steps' = <<>>
                       /\ pc' = "load"
                       /\ UNCHANGED exc
  /\ UNCHANGED <<aoiVars, gspVars, tree, result, script, args, present, index, dirs, disk, made>>

\* lines 145-150: each remaining tile is read and appended to gdf_ortho, the
\* rows of the index for this Ortho; the result replaces gdf_tiles
MT_Load ==
  /\ script = "merge_tiles" /\ pc = "load"
  /\ LET paths == Column(loc.rows, "Path")
         n == Len(paths)
         gdf_ortho == [loc.frame EXCEPT !.rows = loc.rows]
         merged == IF n >= 2
                     THEN AppendFrames(<<gdf_ortho,
                            rename_columns(read_as_geodataframe(paths[n]))>>)
                     ELSE gdf
     IN  IF \E i \in 2..n : read_as_geodataframe(paths[i]) = None
           THEN /\ pc' = "raised" /\ exc' = "AttributeError"
                /\ UNCHANGED <<loc, gdf, steps>>
           ELSE /\ gdf' = merged
                /\ loc' = [loc EXCEPT !.read = paths, !.concat = merged]
                /\ steps' = Append(steps, "load")
                /\ pc' = "dedup"
                /\ UNCHANGED exc
  /\ UNCHANGED <<aoiVars, gspVars, tree, result, script, args, present, index, dirs, disk, made>>

\* lines 152-153
MT_Dedup ==
  /\ script = "merge_tiles" /\ pc = "dedup"
  /\ IF {"easting", "northing"} \subseteq gdf.cols
       THEN /\ gdf' = DropDuplicates(gdf, {"easting", "northing"})
            /\ steps' = Append(steps, "dedup")
            /\ pc' = "clip"
            /\ UNCHANGED exc
       ELSE /\ pc' = "raised" /\ exc' = "KeyError"
            /\ UNCHANGED <<gdf, steps>>
  /\ UNCHANGED <<aoiVars, gspVars, tree, result, script, args, present, index, dirs, disk, loc, made>>

\* lines 155-163: the optional clip
MT_Clip ==
  /\ script = "merge_tiles" /\ pc = "clip"
  /\ gdf' = IF args.clip_aoi # "" THEN Clip(gdf, ClipMask(gdf.crs)) ELSE gdf
  /\ steps' = IF args.clip_aoi # "" THEN Append(steps, "clip") ELSE steps
  /\ pc' = "write"
  /\ UNCHANGED <<aoiVars, gspVars, tree, result, script, args, present, index, dirs, disk, exc, loc, made>>

MT_OutFName ==
  "ISS_" \o Replace(loc.ref.product_id, "-", "") \o "_" \o loc.in_start_date
    \o "_" \o loc.in_end_date \o "_" \o loc.aoi_tag \o "O" \o loc.keys[loc.ki]
    \o "_01"

\* lines 165-192: the merged data are written in the chosen format
MT_Write ==
  /\ script = "merge_tiles" /\ pc = "write"
  /\ disk' = DataFiles(args.format, loc.out_dir, MT_OutFName,
                       DatesConvention(gdf)) @@ disk
  /\ loc' = [loc EXCEPT !.out_f_name = MT_OutFName,
                        !.out_file = DataFile(args.format, loc.out_dir, MT_OutFName)]
  /\ gdf' = IF Lower(args.format) = "shp"
              THEN ToCrs(DatesConvention(gdf), 4326) ELSE DatesConvention(gdf)
  /\ steps' = Append(steps, "write")
  /\ pc' = "xml"
  /\ UNCHANGED <<aoiVars, gspVars, tree, result, script, args, present, index, dirs, exc, made>>

MT_MetadataFName ==
  "ISS_" \o Replace(loc.ref.product_id, "-", "") \o "_" \o loc.in_start_date
    \o "_" \o loc.in_end_date \o "_" \o loc.aoi_tag \o "O" \o loc.keys[loc.ki]
    \o "_01.xml"

\* lines 270-299: the <gsp> element of one tile of the group
MT_GspElement(path) ==
  [tag |-> "gsp", gsp_id |-> "S301SNT03",
   product_id |-> Replace(Stem(path), Split(Stem(path), "_")[2], "S301SNT03"),
   tile_id |-> FirstXml(path).value.tile_id,
   description |-> gsp_description("S301SNT03")]

\* lines 219-299: the tree of the metadata file
MT_Root(frame) ==
  [gsp_id |-> loc.ref.product_id,
   product_id |-> Replace(loc.out_f_name, ".csv", ""),
   description |-> gsp_description(loc.ref.product_id),
   sensor_id |-> SENSOR,
   provider |-> loc.ref.provider,
   production_date |-> Replace(loc.ref.production_date, "-", ""),
   start_date |-> loc.in_start_date,
   end_date |-> loc.in_end_date,
   aoi |-> loc.aoi_tag,
   bbox |-> TotalBounds(frame),
   geometry |-> Envelope(TotalBounds(frame)).value,
   crs |-> loc.ref.crs,
   dataset |-> MetaInputs(<<>>, gsp_metadata(loc.ref.product_id)).value
                 \o [i \in DOMAIN loc.rows |-> MT_GspElement(loc.rows[i]["Path"])]]

\* lines 194-308: metadata_file already holds out_dir and is joined with
\* out_dir once more where the file is opened
MT_Xml ==
  /\ script = "merge_tiles" /\ pc = "xml"
  /\ LET metadata_file == PathJoin(loc.out_dir, MT_MetadataFName)
         metadata_path == PathJoin(loc.out_dir, metadata_file)
     IN  IF Envelope(TotalBounds(ToCrs(gdf, 4326))).kind = "raise"
           THEN /\ pc' = "raised" /\ exc' = "AttributeError"
                /\ gdf' = ToCrs(gdf, 4326)
                /\ UNCHANGED <<disk, loc, steps>>
         ELSE IF MetaInputs(<<>>, gsp_metadata(loc.ref.product_id)).kind = "raise"
           THEN /\ pc' = "raised" /\ exc' = "ValueError"
                /\ gdf' = ToCrs(gdf, 4326)
                /\ UNCHANGED <<disk, loc, steps>>
         ELSE IF ~CanCreate(dirs, metadata_path)
           THEN /\ pc' = "raised" /\ exc' = "FileNotFoundError"
                /\ gdf' = ToCrs(gdf, 4326)
                /\ UNCHANGED <<disk, loc, steps>>
           ELSE /\ gdf' = ToCrs(gdf, 4326)
                /\ disk' = (metadata_path :>
                              [kind |-> "xml", root |-> MT_Root(ToCrs(gdf, 4326))])
                           @@ disk
                /\ loc' = [loc EXCEPT !.metadata_f_name = MT_MetadataFName,
                                      !.metadata_path = metadata_path]
                /\ steps' = Append(steps, "xml")
                /\ pc' = "zip"
                /\ UNCHANGED exc
  /\ UNCHANGED <<aoiVars, gspVars, tree, result, script, args, present, index, dirs, made>>

\* lines 310-319
MT_Zip ==
  /\ script = "merge_tiles" /\ pc = "zip"
  /\ LET zip_name == Replace(loc.metadata_path, ".xml", ".zip")
         srcs == <<loc.metadata_path, loc.out_file>>
     IN  IF CanCreate(dirs, zip_name) /\ \A i \in DOMAIN srcs : srcs[i] \in DOMAIN disk
           THEN /\ disk' = (zip_name :>
                              ZipOf(disk, srcs, <<loc.metadata_f_name,
                                                  Basename(loc.out_file)>>))
                           @@ disk
                /\ made' = Append(made, [key |-> <<loc.keys[loc.ki]>>,
                                         zip |-> zip_name, read |-> loc.read])
                /\ steps' = Append(steps, "zip")
                /\ pc' = "remove"
                /\ UNCHANGED exc
           ELSE /\ pc' = "raised" /\ exc' = "FileNotFoundError"
                /\ UNCHANGED <<disk, made, steps>>
  /\ UNCHANGED <<aoiVars, gspVars, tree, result, script, args, present, index, dirs, loc, gdf>>

\* lines 320-322, and the step to the next Ortho value
MT_Remove ==
  /\ script = "merge_tiles" /\ pc = "remove"
  /\ disk' = Removed(disk, {loc.metadata_path, loc.out_file})
  /\ steps' = Append(steps, "remove")
  /\ loc' = [loc EXCEPT !.ki = @ + 1]
  /\ pc' = "group"
  /\ UNCHANGED <<aoiVars, gspVars, tree, result, script, args, present, index, dirs, exc, gdf, made>>

MergeTilesNext ==
  \/ MT_Start \/ MT_Group \/ MT_Load \/ MT_Dedup \/ MT_Clip
  \/ MT_Write \/ MT_Xml \/ MT_Zip \/ MT_Remove

(***************************************************************************)
(* index_bursts.py                                                         *)
(***************************************************************************)
\* a test that looks for the descending pattern first
orbit_direction_descending_first(f_name, track, burst, subswath) ==
  IF Contains(f_name, track \o "D" \o burst \o subswath) THEN "D"
  ELSE IF Contains(f_name, track \o "A" \o burst \o subswath) THEN "A"
  ELSE "U"

\* lines 39-61: re.search of the two patterns in the file name; track,
\* burst and subswath are letters and digits, so that a pattern matches
\* where the name holds it
orbit_direction(f_name, track, burst, subswath) ==
  IF Contains(f_name, track \o "A" \o burst \o subswath) THEN "A"
  ELSE IF Contains(f_name, track \o "D" \o burst \o subswath) THEN "D"
  ELSE "U"

\* a join that keeps every footprint
SJoinKeepsAll(left, polygon) == left

\* gpd.sjoin(left, aoi, predicate="intersects", how="inner")[left.columns]
SJoin(left, polygon) ==
  [left EXCEPT !.rows =
     Pick(left.rows, {i \in DOMAIN left.rows :
                        Meets(left.rows[i]["geometry"], polygon)}, 1)]

\* lines 106-115: the ten lists, empty
BurstLists ==
  [c \in {"Name", "Track", "Burst", "Subswath", "Orbit_Dir", "c_type",
          "geometry", "Path", "start_date", "end_date"} |-> <<>>]

\* a dataframe of the entries that name a file only
FrameOfListsWithFile(lists, crs) ==
  LET I == {i \in DOMAIN lists["Path"] : lists["Path"][i] # "None"}
  IN  Ret([cols |-> DOMAIN lists,
           rows |-> Pick([i \in DOMAIN lists["Path"] |->
                            [c \in DOMAIN lists |-> lists[c][i]]], I, 1),
           crs |-> crs])

\* lines 179-191: the dataframe of the lists; the lists must have one length
FrameOfLists(lists, crs) ==
  IF \E c, d \in DOMAIN lists : Len(lists[c]) # Len(lists[d])
    THEN Raise("ValueError")
    ELSE Ret([cols |-> DOMAIN lists,
              rows |-> [i \in 1..Len(lists["geometry"]) |->
                          [c \in DOMAIN lists |-> lists[c][i]]],
              crs |-> crs])

\* GeoDataFrame.to_file(out_shp, driver="ESRI Shapefile")
ShapeFiles(out_shp, frame) ==
  [p \in {Replace(out_shp, ".shp", e) : e \in {".shp"} \cup ShpCompanions}
     |-> [kind |-> DropFirst(Suffix(p), 1), frame |-> frame]]

\* lines 84-119: the checks, the footprints that intersect the AOI, the
\* content of the burst directory
IB_Start ==
  /\ script = "index_bursts" /\ pc = "start"
  /\ \E l \in Listings(args.burst_dir) :
       LET aoi_bursts == SJoin(ToCrs(index, 4326), ClipPolygon)
       IN  IF ~Exists(args.aoi) \/ ~Exists(args.burst_dir)
                \/ ~Exists(args.burst_file) \/ ~IsDir(args.burst_dir)
                \/ Len(aoi_bursts.rows) = 0
             THEN /\ pc' = "raised"
                  /\ exc' = IF ~Exists(args.aoi) THEN "FileNotFoundError"
                            ELSE IF ~Exists(args.burst_dir) THEN "ValueError"
                            ELSE IF ~Exists(args.burst_file) THEN "DataSourceError"
                            ELSE IF ~IsDir(args.burst_dir) THEN "NotADirectoryError"
                            ELSE "ValueError"
                  /\ UNCHANGED <<gdf, loc>>
             ELSE /\ gdf' = aoi_bursts
                  /\ loc' = [loc EXCEPT !.listing = l, !.lists = BurstLists,
                                        !.ki = 1]
                  /\ pc' = "scan"
                  /\ UNCHANGED exc
  /\ UNCHANGED <<aoiVars, gspVars, tree, result, script, args, present, index, dirs, disk,
                 steps, made>>

\* lines 121-177: one iteration of the loop over the footprints
IB_Row ==
  /\ script = "index_bursts" /\ pc = "scan"
  /\ LET row == gdf.rows[loc.ki]
         found_bursts ==
           Pick(loc.listing,
                {i \in DOMAIN loc.listing :
                   /\ ContainsThen(loc.listing[i], row["Track"],
                                   row["Burst"] \o row["Subswath"])
                   /\ EndsWith(loc.listing[i], ".zip")}, 1)
         n == Len(found_bursts)
         path(bi) == PathJoin(args.burst_dir, found_bursts[bi])
         p_f_name(bi) == Split(found_bursts[bi], "_")
         same(c) == [bi \in 1..Max({n, 1}) |-> row[c]]
         new ==
           IF n > 0
             THEN [Name |-> same("Name"), Track |-> same("Track"),
                   Burst |-> same("Burst"), Subswath |-> same("Subswath"),
                   geometry |-> same("geometry"),
                   Orbit_Dir |-> [bi \in 1..n |->
                      orbit_direction(found_bursts[bi], row["Track"],
                                      row["Burst"], row["Subswath"])],
                   Path |-> [bi \in 1..n |-> path(bi)],
                   start_date |-> [bi \in 1..n |-> FirstXml(path(bi)).value.start_date],
                   end_date |-> [bi \in 1..n |-> FirstXml(path(bi)).value.end_date],
                   c_type |-> [bi \in 1..n |->
                      IF EndsWith(p_f_name(bi)[5], "B") THEN "B"
                      ELSE IF EndsWith(p_f_name(bi)[5], "C") THEN "C"
                      ELSE "None"]]
             ELSE [Name |-> same("Name"), Track |-> same("Track"),
                   Burst |-> same("Burst"), Subswath |-> same("Subswath"),
                   geometry |-> same("geometry"), Orbit_Dir |-> <<"None">>,
                   Path |-> <<"None">>, start_date |-> <<"None">>,
                   end_date |-> <<"None">>, c_type |-> <<"None">>]
     IN  IF \E bi \in 1..n : FirstXml(path(bi)).kind = "raise"
                               \/ Len(p_f_name(bi)) < 5
           THEN /\ pc' = "raised"
                /\ exc' = LET bi == Min({b \in 1..n :
                                           FirstXml(path(b)).kind = "raise"
                                             \/ Len(p_f_name(b)) < 5})
                          IN  IF FirstXml(path(bi)).kind = "raise"
                                THEN FirstXml(path(bi)).exc ELSE "IndexError"
                /\ UNCHANGED loc
           ELSE /\ loc' = [loc EXCEPT
                      !.lists = [c \in DOMAIN loc.lists |-> loc.lists[c] \o new[c]],
                      !.ki = @ + 1]
                /\ pc' = IF loc.ki = Len(gdf.rows) THEN "save" ELSE "scan"
                /\ UNCHANGED exc
  /\ UNCHANGED <<aoiVars, gspVars, tree, result, script, args, present, index, dirs, disk,
                 gdf, steps, made>>

\* lines 179-206: the index dataframe, the output directory, the shapefile
IB_Save ==
  /\ script = "index_bursts" /\ pc = "save"
  /\ LET aoi_bursts == FrameOfLists(loc.lists, 4326)
         out_dir == PathJoin(Dirname(args.burst_dir), "AOIs_bursts")
         out_shp == PathJoin(out_dir, Basename(args.aoi))
     IN  IF aoi_bursts.kind = "raise"
           THEN /\ pc' = "raised" /\ exc' = aoi_bursts.exc
                /\ UNCHANGED <<gdf, dirs, disk>>
           ELSE /\ gdf' = IF "overlap" \in aoi_bursts.value.cols
                            THEN DropColumn(aoi_bursts.value, "overlap")
                            ELSE aoi_bursts.value
                /\ dirs' = MakeDirs(dirs, out_dir)
                /\ disk' = ShapeFiles(out_shp, gdf') @@ disk
                /\ pc' = "done"
                /\ UNCHANGED exc
  /\ UNCHANGED <<aoiVars, gspVars, tree, result, script, args, present, index, loc, steps, made>>

IndexBurstsNext == IB_Start \/ IB_Row \/ IB_Save

(***************************************************************************)
(* index_tiles.py                                                          *)
(***************************************************************************)
\* units of the coordinates in 100 km (the 1e5 of lines 100-101)
ScaleE5 == 2

\* lines 99-101: the tile identifier of a footprint, from the first
\* coordinate of its ring, taken to be the lower left corner
TileId(g) ==
  "E" \o ToString(g.xmin \div ScaleE5)
    \o "N" \o ToString((g.ymin + ScaleE5 - 1) \div ScaleE5)

\* lines 61-89: the checks, the footprints that intersect the AOI, the
\* content of the tile directory
IT_Start ==
  /\ script = "index_tiles" /\ pc = "start"
  /\ \E l \in Listings(args.tile_dir) :
       LET aoi_tiles == SJoin(ToCrs(index, 4326), ClipPolygon)
       IN  IF ~Exists(args.aoi) \/ ~IsDir(args.tile_dir)
                \/ ~Exists(args.tile_file) \/ Len(aoi_tiles.rows) = 0
             THEN /\ pc' = "raised"
                  /\ exc' = IF ~Exists(args.aoi) THEN "FileNotFoundError"
                            ELSE IF ~IsDir(args.tile_dir) THEN "ValueError"
                            ELSE IF ~Exists(args.tile_file) THEN "DataSourceError"
                            ELSE "ValueError"
                  /\ UNCHANGED <<gdf, loc>>
             ELSE /\ gdf' = ToCrs(aoi_tiles, 3035)
                  /\ loc' = [loc EXCEPT !.listing = l, !.ci = 1,
                                        !.aoi_tiles_v = ToCrs(aoi_tiles, 3035),
                                        !.aoi_tiles_e = ToCrs(aoi_tiles, 3035)]
                  /\ pc' = "scan"
                  /\ UNCHANGED exc
  /\ UNCHANGED <<aoiVars, gspVars, tree, result, script, args, present, index, dirs, disk,
                 steps, made>>

\* the columns Path, Ortho, start_date, end_date set from the lists; the
\* lists must be as long as the frame
WithColumns(df, lists) ==
  IF \E c \in DOMAIN lists : Len(lists[c]) # Len(df.rows)
    THEN Raise("ValueError")
    ELSE Ret([df EXCEPT
                !.cols = df.cols \cup DOMAIN lists,
                !.rows = [i \in DOMAIN df.rows |->
                            [c \in df.cols \cup DOMAIN lists |->
                               IF c \in DOMAIN lists THEN lists[c][i]
                               ELSE df.rows[i][c]]]])

\* lists that take the last matching file of the directory
TileListsLast(rows, i, ort, tile_dir, content) ==
  LET found(k) ==
        Pick(content,
             {j \in DOMAIN content :
                /\ Contains(content[j], TileId(rows[k]["geometry"]) \o ort)
                /\ EndsWith(content[j], ".zip")}, 1)
      last(k) == found(k)[Len(found(k))]
      meta(k) == FirstXml(PathJoin(tile_dir, last(k))).value
      at(j) == i + j - 1
      N == 1..(Len(rows) - i + 1)
  IN  [Path |-> [j \in N |-> IF Len(found(at(j))) = 0 THEN "None"
                              ELSE PathJoin(tile_dir, last(at(j)))],
       Ortho |-> [j \in N |-> ort],
       start_date |-> [j \in N |-> IF Len(found(at(j))) = 0 THEN "None"
                                    ELSE meta(at(j)).start_date],
       end_date |-> [j \in N |-> IF Len(found(at(j))) = 0 THEN "None"
                                  ELSE meta(at(j)).end_date]]

\* lines 97-131: the lists after the rows from position i on
RECURSIVE TileLists(_, _, _, _, _)
TileLists(rows, i, ort, tile_dir, content) ==
  IF i > Len(rows)
    THEN [Path |-> <<>>, Ortho |-> <<>>, start_date |-> <<>>, end_date |-> <<>>]
    ELSE
      LET found_tile ==
            Pick(content,
                 {k \in DOMAIN content :
                    /\ Contains(content[k], TileId(rows[i]["geometry"]) \o ort)
                    /\ EndsWith(content[k], ".zip")}, 1)
          meta_dict == FirstXml(PathJoin(tile_dir, found_tile[1])).value
          from_name == Split(found_tile[1], "_")
          rest == TileLists(rows, i + 1, ort, tile_dir, content)
          dates ==
            IF Len(found_tile) = 0
              THEN [start_date |-> <<"None">>, end_date |-> <<"None">>]
            ELSE IF "start_date" \notin DOMAIN meta_dict
              THEN [start_date |-> <<from_name[3]>>, end_date |-> <<from_name[4]>>]
            ELSE IF "end_date" \notin DOMAIN meta_dict
              THEN [start_date |-> <<meta_dict.start_date, from_name[3]>>,
                    end_date |-> <<from_name[4]>>]
            ELSE [start_date |-> <<meta_dict.start_date>>,
                  end_date |-> <<meta_dict.end_date>>]
      IN  [Path |-> <<IF Len(found_tile) = 0 THEN "None"
                      ELSE PathJoin(tile_dir, found_tile[1])>> \o rest.Path,
           Ortho |-> <<ort>> \o rest.Ortho,
           start_date |-> dates.start_date \o rest.start_date,
           end_date |-> dates.end_date \o rest.end_date]

\* lines 91-144: the pass over the footprints for one direction
IT_Pass ==
  /\ script = "index_tiles" /\ pc = "scan"
  /\ LET ort == Orthos[loc.ci]
         rows == loc.aoi_tiles_v.rows
         unread == {i \in DOMAIN rows :
                      \E k \in DOMAIN loc.listing :
                         /\ Contains(loc.listing[k], TileId(rows[i]["geometry"]) \o ort)
                         /\ EndsWith(loc.listing[k], ".zip")
                         /\ FirstXml(PathJoin(args.tile_dir, loc.listing[k])).kind
                              = "raise"}
         lists == TileLists(rows, 1, ort, args.tile_dir, loc.listing)
         target == IF ort = "V" THEN loc.aoi_tiles_v ELSE loc.aoi_tiles_e
     IN  IF unread # {} \/ WithColumns(target, lists).kind = "raise"
           THEN /\ pc' = "raised"
                /\ exc' = IF unread # {} THEN "TypeError" ELSE "ValueError"
                /\ UNCHANGED loc
           ELSE /\ loc' = IF ort = "V"
                            THEN [loc EXCEPT !.ci = @ + 1,
                                    !.aoi_tiles_v = WithColumns(target, lists).value]
                            ELSE [loc EXCEPT !.ci = @ + 1,
                                    !.aoi_tiles_e = WithColumns(target, lists).value]
                /\ pc' = IF loc.ci = Len(Orthos) THEN "save" ELSE "scan"
                /\ UNCHANGED exc
  /\ UNCHANGED <<aoiVars, gspVars, tree, result, script, args, present, index, dirs, disk,
                 gdf, steps, made>>

\* lines 146-158: the two frames appended, the output directory, the
\* shapefile; the frame without 'overlap' is assigned to aoi_bursts and
\* aoi_tiles is saved
IT_Save ==
  /\ script = "index_tiles" /\ pc = "save"
  /\ LET aoi_tiles == AppendFrames(<<loc.aoi_tiles_v, loc.aoi_tiles_e>>)
         out_dir == PathJoin(Dirname(args.tile_dir), "AOIs_tiles")
         out_shp == PathJoin(out_dir, Basename(args.aoi))
     IN  /\ gdf' = aoi_tiles
         /\ dirs' = MakeDirs(dirs, out_dir)
         /\ disk' = ShapeFiles(out_shp, aoi_tiles) @@ disk
         /\ pc' = "done"
  /\ UNCHANGED <<aoiVars, gspVars, tree, result, script, args, present, index, exc, loc,
                 steps, made>>

IndexTilesNext == IT_Start \/ IT_Pass \/ IT_Save

(***************************************************************************)
(* process_trea.py                                                         *)
(***************************************************************************)
TreaDir == "/d/trea"

\* a delivered archive: its members lie under the directory prefix
Delivery(stem, prefix) ==
  [path |-> PathJoin(TreaDir, stem \o ".zip"),
   names |-> <<prefix \o stem \o ".xml", prefix \o stem \o ".csv",
               prefix \o stem \o ".qml">>]

Deliveries ==
  {Delivery("ISS_S302SNT05_A", "data/IRIDE/S3-02-SNT-05/"),
   Delivery("ISS_S302SNT05_B", "data/IRIDE/S3-02-SNT-05/"),
   Delivery("ISS_S302SNT05_C", "")}

\* the orders in which os.listdir can give the elements of a set
Orders(S) == {f \in [1..Cardinality(S) -> S] :
                \A i, j \in 1..Cardinality(S) : i # j => f[i] # f[j]}

\* lines 33-44: the check, the output directory, the zip files of in_dir
PT_Start ==
  /\ script = "process_trea" /\ pc = "start"
  /\ IF ~Exists(args.in_dir)
       THEN /\ pc' = "raised" /\ exc' = "FileNotFoundError"
            /\ UNCHANGED <<dirs, loc>>
       ELSE \E z_file_list \in
                Orders({p \in present : Dirname(p) = args.in_dir
                                         /\ EndsWith(p, ".zip")}) :
              /\ dirs' = IF Exists(args.out_dir) THEN dirs
                         ELSE MakeDirs(dirs, args.out_dir)
              /\ loc' = [loc EXCEPT !.listing = z_file_list, !.ki = 1]
              /\ pc' = IF Len(z_file_list) = 0 THEN "clean" ELSE "file"
              /\ UNCHANGED exc
  /\ UNCHANGED <<aoiVars, gspVars, tree, result, script, args, present, index, disk, gdf,
                 steps, made>>

\* lines 45-72: one archive is extracted into out_dir and its .xml and .csv
\* files are stored in a new archive without their directories
PT_File ==
  /\ script = "process_trea" /\ pc = "file"
  /\ LET z_file == loc.listing[loc.ki]
         names == (CHOOSE a \in Deliveries : a.path = z_file).names
         extracted ==
           [p \in {PathJoin(args.out_dir, names[i]) : i \in DOMAIN names} |->
              [kind |-> DropFirst(Suffix(p), 1), from |-> z_file]]
         ds == UNION ({dirs} \cup {MakeDirs({}, Dirname(p)) : p \in DOMAIN extracted})
         temporary_dir ==
           PathJoin(PathJoin(PathJoin(args.out_dir, "data"), "IRIDE"),
                    "S3-02-SNT-05")
         z_file_base == Replace(Basename(z_file), ".zip", "")
         ftm_list ==
           {p \in DOMAIN (extracted @@ disk) :
              /\ Dirname(p) = temporary_dir
              /\ EndsWith(p, ".xml") \/ EndsWith(p, ".csv")
              /\ Contains(p, z_file_base)}
     IN  IF temporary_dir \notin ds
           THEN /\ pc' = "raised" /\ exc' = "FileNotFoundError"
                /\ disk' = extracted @@ disk
                /\ dirs' = ds
                /\ UNCHANGED <<loc, made>>
           ELSE \E order \in Orders(ftm_list) :
                  /\ disk' = (PathJoin(args.out_dir, z_file_base \o ".zip") :>
                                ZipOf(extracted @@ disk, order,
                                      [i \in DOMAIN order |-> Basename(order[i])]))
                             @@ extracted @@ disk
                  /\ dirs' = ds
                  /\ made' = Append(made,
                               [key |-> <<z_file_base>>,
                                zip |-> PathJoin(args.out_dir, z_file_base \o ".zip"),
                                read |-> <<z_file>>])
                  /\ loc' = [loc EXCEPT !.ki = @ + 1]
                  /\ pc' = IF loc.ki = Len(loc.listing) THEN "clean" ELSE "file"
                  /\ UNCHANGED exc
  /\ UNCHANGED <<aoiVars, gspVars, tree, result, script, args, present, index, gdf, steps>>

\* lines 74-75: shutil.rmtree of the extracted tree
PT_Clean ==
  /\ script = "process_trea" /\ pc = "clean"
  /\ LET data == PathJoin(args.out_dir, "data")
     IN  IF data \notin dirs
           THEN /\ pc' = "raised" /\ exc' = "FileNotFoundError"
                /\ UNCHANGED <<dirs, disk>>
           ELSE /\ disk' = Removed(disk, {p \in DOMAIN disk :
                                            StartsWith(p, data \o "/")})
                /\ dirs' = {d \in dirs : d # data /\ ~StartsWith(d, data \o "/")}
                /\ pc' = "done"
                /\ UNCHANGED exc
  /\ UNCHANGED <<aoiVars, gspVars, tree, result, script, args, present, index, loc, gdf,
                 steps, made>>

ProcessTreaNext == PT_Start \/ PT_File \/ PT_Clean

(***************************************************************************)
(* Calls of read_as_geodataframe and of extract_xml_from_zip on one file   *)
(***************************************************************************)
MaxMembers == 3

UtilDir == "/u"

\* paths with each extension that has a case, and without one
UtilPaths ==
  {"/u/p1.zip", "/u/p1.csv", "/u/p1.shp", "/u/p1.parquet", "/u/p1.txt",
   "/u/p1.ZIP", "/u/p1"}

PointsTable == StdTable(<<<<"q1", 45, 11, 50, 40>>, <<"q2", 46, 12, 51, 41>>>>)

\* a table without the columns easting and northing
PlainTable == [cols |-> {"pid"}, rows |-> <<[pid |-> "q1"]>>]

PointsFrame(crs) ==
  [cols |-> {"pid", "geometry"},
   rows |-> <<[pid |-> "q1", geometry |-> Geom(10, 10, 10, 10)]>>,
   crs |-> crs]

\* a metadata file whose root has a child with children
NestedXml ==
  [tag |-> "GSP", text |-> "",
   children |-> <<Leaf("product_id", "S3-01-SNT-03"),
                  [tag |-> "dataset", text |-> "",
                   children |-> <<Leaf("input_id", "S3-NEO-I01"),
                                  Leaf("version", "Tinitaly-10")>>],
                  Leaf("product_id", "S3-01-SNT-04")>>]

\* the members an archive can have
UtilMembers ==
  {[name |-> "a.xml",
    content |-> [kind |-> "xml",
                 root |-> Xml("S3-01-SNT-02", "burst_id", "015A0123IW1")]],
   [name |-> "b.xml", content |-> [kind |-> "xml", root |-> NestedXml]],
   [name |-> "bad.xml", content |-> [kind |-> "junk"]],
   [name |-> "p1.csv", content |-> [kind |-> "csv", frame |-> PointsTable]],
   [name |-> "other.csv", content |-> [kind |-> "csv", frame |-> PlainTable]],
   [name |-> "p1.parquet", content |-> [kind |-> "parquet", frame |-> PointsFrame(4326)]],
   [name |-> "notes.txt", content |-> [kind |-> "junk"]]}

\* the files a path can hold
UtilFiles ==
  {[kind |-> "zip", members |-> m] : m \in {<<>>} \cup SeqsUpTo(UtilMembers, MaxMembers)}
  \cup {[kind |-> "csv", frame |-> PointsTable], [kind |-> "csv", frame |-> PlainTable],
        [kind |-> "shp", frame |-> PointsFrame(4326)],
        [kind |-> "shp", frame |-> PointsFrame(0)],
        [kind |-> "parquet", frame |-> PointsFrame(3035)],
        [kind |-> "parquet", frame |-> PointsFrame(4326)],
        [kind |-> "parquet", frame |-> PointsFrame(0)],
        [kind |-> "junk"]}

UtilFunctions == {"read_as_geodataframe", "extract_xml_from_zip"}

InitUtils ==
  /\ AoiIdle /\ GspIdle
  /\ script \in UtilFunctions
  /\ args \in [path : UtilPaths]
  /\ disk \in {<<>>} \cup {args.path :> f : f \in UtilFiles}
  /\ present = {}
  /\ index = EmptyFrame
  /\ dirs = {UtilDir}
  /\ pc = "start"
  /\ exc = ""
  /\ loc = LocInit
  /\ gdf = EmptyFrame
  /\ steps = <<>>
  /\ made = <<>>
  /\ result = NotCalled
  /\ tree = NoTree

\* read_as_geodataframe(path)
CallReadAsGeodataframe ==
  /\ script = "read_as_geodataframe" /\ pc = "start"
  /\ result' = read_as_geodataframe(args.path)
  /\ pc' = "done"
  /\ UNCHANGED <<aoiVars, gspVars, tree, script, args, present, index, dirs, disk,
                 exc, loc, gdf, steps, made>>

\* extract_xml_from_zip(zip_file_path)
CallExtractXmlFromZip ==
  /\ script = "extract_xml_from_zip" /\ pc = "start"
  /\ LET r == extract_xml_from_zip(args.path)
     IN  IF r # None /\ "list" \notin DOMAIN r
           THEN /\ pc' = "raised" /\ exc' = r.exc
                /\ UNCHANGED result
           ELSE /\ pc' = "done" /\ result' = r
                /\ UNCHANGED exc
  /\ UNCHANGED <<aoiVars, gspVars, tree, script, args, present, index, dirs, disk,
                 loc, gdf, steps, made>>

NextUtils == CallReadAsGeodataframe \/ CallExtractXmlFromZip

SpecUtils == InitUtils /\ [][NextUtils]_vars
(***************************************************************************)
(* list_bucket_content.py                                                  *)
(***************************************************************************)
\* processing[k] of Python, k counted from 0: IndexError past the end
CharOf(processing, k) ==
  IF k < Len(processing) THEN Ret(CharAt(processing, k + 1))
  ELSE Raise("IndexError")

\* the position of the processing string a branch returns, or no position
\* when the branch returns 'NA'
ReadAt(k) == [read |-> TRUE, at |-> k]

NoRead == [read |-> FALSE, at |-> 0]

\* a direction that handles SE-S3-07 as SE-S3-04
DirectionPositionWith07(processing, svc_id, gsp_id) ==
  IF svc_id \in {"SE-S3-04", "SE-S3-07"} THEN ReadAt(6) ELSE NoRead

\* lines 38-74: the branch taken by get_gsp_direction
DirectionPosition(processing, svc_id, gsp_id) ==
  IF svc_id = "SE-S3-01"
    THEN IF gsp_id \in {"S3-01-" \o SENSOR \o "-03", "S3-01-" \o SENSOR \o "-04"}
           THEN ReadAt(3) ELSE ReadAt(6)
  ELSE IF svc_id = "SE-S3-02"
    THEN IF Len(processing) = 5 THEN ReadAt(4) ELSE ReadAt(6)
  ELSE IF svc_id = "SE-S3-03"
    THEN IF Len(processing) > 13 THEN ReadAt(9) ELSE ReadAt(6)
  ELSE IF svc_id = "SE-S3-04"
    THEN ReadAt(6)
  ELSE IF svc_id = "SE-S3-05"
    THEN IF Len(processing) >= 11 THEN ReadAt(9) ELSE ReadAt(6)
  ELSE IF svc_id = "SE-S3-06"
    THEN IF Len(processing) >= 14 THEN ReadAt(9)
         ELSE IF Len(processing) = 13 THEN ReadAt(6)
         ELSE IF Len(processing) <= 8 THEN NoRead
         ELSE ReadAt(6)
  ELSE NoRead

get_gsp_direction(processing, svc_id, gsp_id) ==
  IF DirectionPosition(processing, svc_id, gsp_id).read
    THEN CharOf(processing, DirectionPosition(processing, svc_id, gsp_id).at)
    ELSE Ret("NA")

\* 'Yes' when the character read is one of the letters, 'No' otherwise
CalibFlag(read, letters) ==
  IF read.kind = "raise" THEN read
  ELSE IF read.value \in letters THEN Ret("Yes") ELSE Ret("No")

\* a flag that takes S3-01-SNT-04 for a product without calibration
get_calibrated_gsp_id_without_04(processing, svc_id, gsp_id) ==
  IF svc_id = "SE-S3-01"
    THEN IF gsp_id \in {"S3-01-SNT-02", "S3-01-SNT-03"} THEN Ret("Yes")
         ELSE Ret("No")
  ELSE IF svc_id = "SE-S3-04" THEN Ret("No")
  ELSE Ret("NA")

\* lines 88-153
get_calibrated_gsp_id(processing, svc_id, gsp_id) ==
  IF svc_id = "SE-S3-01"
    THEN IF gsp_id \in {"S3-01-" \o SENSOR \o "-02", "S3-01-" \o SENSOR \o "-03"}
           THEN Ret("Yes")
         ELSE IF gsp_id \in {"S3-01-" \o SENSOR \o "-04"} THEN Ret("Yes")
         ELSE Ret("No")
  ELSE IF svc_id = "SE-S3-02"
    THEN IF Len(processing) = 5 THEN Ret("Yes")
         ELSE IF EndsWith(processing, "C") THEN Ret("Yes")
         ELSE Ret("No")
  ELSE IF svc_id = "SE-S3-03"
    THEN CalibFlag(IF Len(processing) = 9 THEN CharOf(processing, 7)
                   ELSE IF gsp_id = "S3-03-CHA-04" THEN CharOf(processing, 7)
                   ELSE CharOf(processing, 10),
                   {"O", "C"})
  ELSE IF svc_id = "SE-S3-04"
    THEN Ret("No")
  ELSE IF svc_id = "SE-S3-05"
    THEN CalibFlag(IF Len(processing) <= 10 THEN CharOf(processing, 7)
                   ELSE CharOf(processing, 10),
                   {"M", "C"})
  ELSE IF svc_id = "SE-S3-06"
    THEN CalibFlag(IF Len(processing) = 8 THEN CharOf(processing, 6)
                   ELSE IF Len(processing) \in {9, 11, 13} THEN CharOf(processing, 7)
                   ELSE CharOf(processing, 10),
                   {"O", "C"})
  ELSE Ret("NA")

\* the longest processing string of a call
MaxProcessing == 15

\* processing fields of product names, each followed by further characters
ProcessingStems ==
  {"015A0123IW1CXXXXXXXX", "E25N20VCMOCOXXXXXXXX", "117D04CO56MCOXXXXXXX"}

Processings ==
  {SubSeq(s, 1, n) : s \in ProcessingStems, n \in 0..MaxProcessing}

ServiceIds ==
  {"SE-S3-01", "SE-S3-02", "SE-S3-03", "SE-S3-04", "SE-S3-05", "SE-S3-06",
   "SE-S3-07", "SE-S3-08", ""}

ProductIds ==
  {"S3-01-SNT-01", "S3-01-SNT-02", "S3-01-SNT-03", "S3-01-SNT-04",
   "S3-03-CHA-04", "S3-02-SNT-05", ""}

FieldFunctions == {"get_gsp_direction", "get_calibrated_gsp_id"}

InitFields ==
  /\ AoiIdle /\ GspIdle
  /\ script \in FieldFunctions
  /\ args \in [processing : Processings, svc_id : ServiceIds, gsp_id : ProductIds]
  /\ present = {}
  /\ index = EmptyFrame
  /\ dirs = {}
  /\ disk = <<>>
  /\ pc = "start"
  /\ exc = ""
  /\ loc = LocInit
  /\ gdf = EmptyFrame
  /\ steps = <<>>
  /\ made = <<>>
  /\ result = NotCalled
  /\ tree = NoTree

\* the return of a call, or the exception that ends it
Returned(r) ==
  /\ result' = r
  /\ pc' = IF r.kind = "raise" THEN "raised" ELSE "done"
  /\ exc' = r.exc

CallGetGspDirection ==
  /\ script = "get_gsp_direction" /\ pc = "start"
  /\ Returned(get_gsp_direction(args.processing, args.svc_id, args.gsp_id))
  /\ UNCHANGED <<aoiVars, gspVars, tree, script, args, present, index, dirs, disk,
                 loc, gdf, steps, made>>

CallGetCalibratedGspId ==
  /\ script = "get_calibrated_gsp_id" /\ pc = "start"
  /\ Returned(get_calibrated_gsp_id(args.processing, args.svc_id, args.gsp_id))
  /\ UNCHANGED <<aoiVars, gspVars, tree, script, args, present, index, dirs, disk,
                 loc, gdf, steps, made>>

NextFields == CallGetGspDirection \/ CallGetCalibratedGspId

SpecFields == InitFields /\ [][NextFields]_vars

(***************************************************************************)
(* list_bucket_content.py: main                                            *)
(***************************************************************************)
Digits == <<"0", "1", "2", "3", "4", "5", "6", "7", "8", "9">>

\* int(s) for a string of decimal digits; ValueError for any other string
RECURSIVE DigitsValue(_)
DigitsValue(s) ==
  IF Len(s) = 0 THEN 0
  ELSE 10 * DigitsValue(SubSeq(s, 1, Len(s) - 1))
         + ((CHOOSE d \in DOMAIN Digits : Digits[d] = CharAt(s, Len(s))) - 1)

ToInt(s) == IF IsDigits(s) THEN Ret(DigitsValue(s)) ELSE Raise("ValueError")

\* s[a:b] of Python for 0 <= a <= b
Slice(s, a, b) == SubSeq(s, a + 1, Min({b, Len(s)}))

\* a date that keeps the day of the period field
MidMonthWithDay(s) ==
  LET year == ToInt(Slice(s, 0, 4))
      month == ToInt(Slice(s, 4, 6))
  IN  IF year.kind = "raise" THEN year
      ELSE IF month.kind = "raise" THEN month
      ELSE Ret(Slice(s, 6, 8) \o "/" \o Slice(s, 4, 6) \o "/" \o Slice(s, 0, 4))

\* datetime(int(s[0:4]), int(s[4:6]), 15).strftime("%d/%m/%Y")
MidMonth(s) ==
  LET year == ToInt(Slice(s, 0, 4))
      month == ToInt(Slice(s, 4, 6))
  IN  IF year.kind = "raise" THEN year
      ELSE IF month.kind = "raise" THEN month
      ELSE IF year.value < 1 \/ month.value < 1 \/ month.value > 12
        THEN Raise("ValueError")
      ELSE Ret("15/" \o (IF month.value < 10 THEN "0" ELSE "")
                 \o ToString(month.value) \o "/" \o ToString(year.value))

\* lines 202-203
skip_suffixes == {"DS_Store", "qml", "sld", ".DS_Store", ".qml", ".sld", "/"}

\* the names of the lists of main by the column they fill
ReportColumns ==
  {"SVC_ID", "GSP_ID", "GSP_Path", "AOI", "Start_Date", "End_Date",
   "Delivery_Date", "Scheduled_Delivery_Date", "Sensor", "Direction",
   "Calibrated", "Data_Type", "GSP_Name"}

Skipped == [kind |-> "skip", exc |-> "", value |-> None]

\* lines 207-274: the entries one key adds to the lists; Skipped for a key
\* the loop passes over; the exception that ends the run otherwise
ReportEntry(key_name) ==
  LET file_suffix == Split(key_name, ".")[Len(Split(key_name, "."))]
      key_name_list == Split(key_name, "/")
      period == Split(key_name_list[4], "_")
      svc_id == key_name_list[2]
      gsp_id == key_name_list[6]
      prod_id == key_name_list[Len(key_name_list)]
      processing == Split(prod_id, "_")[5]
      d_dir == get_gsp_direction(processing, svc_id, gsp_id)
      calib == get_calibrated_gsp_id(processing, svc_id, gsp_id)
      aoi == get_aoi_info(key_name_list[5])
  IN  IF file_suffix \in skip_suffixes \/ EndsWith(key_name, "/") THEN Skipped
      ELSE IF Len(key_name_list) < 6 THEN Raise("IndexError")
      ELSE IF MidMonth(period[1]).kind = "raise" THEN MidMonth(period[1])
      ELSE IF Len(period) < 2 THEN Raise("IndexError")
      ELSE IF MidMonth(period[2]).kind = "raise" THEN MidMonth(period[2])
      ELSE IF Len(Split(prod_id, "_")) < 5 THEN Raise("IndexError")
      ELSE IF d_dir.kind = "raise" THEN d_dir
      ELSE IF calib.kind = "raise" THEN calib
      ELSE IF aoi.kind = "raise" THEN Raise("SystemExit")
      ELSE Ret([SVC_ID |-> svc_id, GSP_ID |-> gsp_id, GSP_Path |-> key_name,
                AOI |-> aoi.value.aoi_name,
                Start_Date |-> MidMonth(period[1]).value,
                End_Date |-> MidMonth(period[2]).value,
                Delivery_Date |-> "15/03/2024",
                Scheduled_Delivery_Date |->
                  IF svc_id = "SE-S3-01" THEN "01/02/2024" ELSE "15/02/2024",
                Sensor |-> key_name_list[3], Direction |-> d_dir.value,
                Calibrated |-> calib.value, Data_Type |-> gsp_d_type(gsp_id),
                GSP_Name |-> gsp_description(gsp_id)])

\* line 206: the condition under which a key is looked at; the optional
\* argument is the empty sequence when it is not given
InSubDir(sub_dir, key_name) ==
  sub_dir # <<>> /\ Contains(key_name, sub_dir[1])

\* lines 178-205: the lists, the listing of the bucket; a bucket without
\* object has no 'Contents'
LB_Start ==
  /\ script = "list_bucket_content" /\ pc = "start"
  /\ IF Len(index.rows) = 0
       THEN /\ pc' = "raised" /\ exc' = "KeyError"
            /\ UNCHANGED loc
       ELSE /\ loc' = [loc EXCEPT !.listing = Column(index.rows, "Key"),
                                  !.lists = [c \in ReportColumns |-> <<>>],
                                  !.ki = 1]
            /\ pc' = "scan"
            /\ UNCHANGED exc
  /\ UNCHANGED <<aoiVars, gspVars, tree, result, script, args, present, index, dirs,
                 disk, gdf, steps, made>>

\* lines 205-274: one iteration of the loop over the keys
LB_Key ==
  /\ script = "list_bucket_content" /\ pc = "scan"
  /\ LET key_name == loc.listing[loc.ki]
         entry == IF InSubDir(args.sub_dir, key_name) THEN ReportEntry(key_name)
                  ELSE Skipped
         after == IF loc.ki = Len(loc.listing) THEN "save" ELSE "scan"
     IN  IF entry.kind = "raise"
           THEN /\ pc' = IF entry.exc = "SystemExit" THEN "exited" ELSE "raised"
                /\ exc' = entry.exc
                /\ UNCHANGED loc
           ELSE /\ loc' = [loc EXCEPT
                      !.lists = IF entry.kind = "skip" THEN @
                                ELSE [c \in ReportColumns |->
                                        Append(@[c], entry.value[c])],
                      !.ki = @ + 1]
                /\ pc' = after
                /\ UNCHANGED exc
  /\ UNCHANGED <<aoiVars, gspVars, tree, result, script, args, present, index, dirs,
                 disk, gdf, steps, made>>

\* the day of the run, as datetime.now().strftime('%Y%m%d')
Today == "20240315"

\* lines 292-295
ReportPath ==
  PathJoin(args.out_dir,
           "Lot-2_GSP_Delivery_Report-" \o Today \o "." \o args.format)

\* lines 276-304: the dataframe of the lists and the report file
LB_Save ==
  /\ script = "list_bucket_content" /\ pc = "save"
  /\ LET gsp_df == [cols |-> ReportColumns,
                    rows |-> [i \in DOMAIN loc.lists["SVC_ID"] |->
                                [c \in ReportColumns |-> loc.lists[c][i]]],
                    crs |-> 0]
     IN  IF CanCreate(dirs, ReportPath)
           THEN /\ gdf' = gsp_df
                /\ disk' = (ReportPath :> [kind |-> args.format, frame |-> gsp_df])
                             @@ disk
                /\ pc' = "done"
                /\ UNCHANGED exc
           ELSE /\ pc' = "raised" /\ exc' = "OSError"
                /\ UNCHANGED <<gdf, disk>>
  /\ UNCHANGED <<aoiVars, gspVars, tree, result, script, args, present, index, dirs,
                 loc, steps, made>>

ListBucketNext == LB_Start \/ LB_Key \/ LB_Save

\* the longest listing of a bucket
MaxKeys == 2

\* keys of products, of a folder, of files the report leaves out, of another
\* folder, with an AOI that is not known, and with too few fields
BucketKeys ==
  {"Lot-2/SE-S3-01/SNT/20180105_20221226/PAL/S3-01-SNT-02/ISS_S301SNT02_20180105_20221226_015A0123IW1C_01.zip",
   "Lot-2/SE-S3-04/SNT/20200101_20201231/PAL/S3-04-SNT-01/ISS_S304SNT01_20200101_20201231_E25N20VCM_01.csv",
   "Lot-2/SE-S3-01/SNT/",
   "Lot-2/SE-S3-01/.DS_Store",
   "Lot-2/SE-S3-01/SNT/20180105_20221226/PAL/S3-01-SNT-02/style.qml",
   "Old/SE-S3-01/SNT/20190701_20191231/BRN/S3-01-SNT-03/ISS_S301SNT03_20190701_20191231_E25N20V_01.zip",
   "Lot-2/SE-S3-01/SNT/20180105_20221226/XYZ/S3-01-SNT-02/ISS_S301SNT02_20180105_20221226_015A0123IW1C_01.zip",
   "Lot-2/readme.txt"}

Buckets ==
  {[cols |-> {"Key"}, rows |-> [i \in DOMAIN l |-> [Key |-> l[i]]], crs |-> 0] :
     l \in {<<>>} \cup SeqsUpTo(BucketKeys, MaxKeys)}

InitBucket ==
  /\ AoiIdle /\ GspIdle
  /\ script = "list_bucket_content"
  /\ args \in [bucket_name : {"iride"}, sub_dir : {<<>>, <<"">>, <<"Lot-2/">>},
               out_dir : {"/tmp"}, format : {"csv", "xlsx", "txt"}]
               \cup [bucket_name : {"iride"}, sub_dir : {<<>>, <<"">>, <<"Lot-2/">>},
                     out_dir : {"/none"}, format : {"csv"}]
  /\ index \in Buckets
  /\ present = {}
  /\ dirs = {"/tmp"}
  /\ disk = <<>>
  /\ pc = "start"
  /\ exc = ""
  /\ loc = LocInit
  /\ gdf = EmptyFrame
  /\ steps = <<>>
  /\ made = <<>>
  /\ result = NotCalled
  /\ tree = NoTree

SpecBucket == InitBucket /\ [][ListBucketNext]_vars
(***************************************************************************)
(* Specifications                                                          *)
(***************************************************************************)
InitAoi == AoiIdle /\ GspIdle /\ ScriptIdle

NextAoi == \E a \in AoiArgs : CallGetAoiInfo(a)

SpecAoi == InitAoi /\ [][NextAoi]_vars

InitGsp == AoiIdle /\ GspIdle /\ ScriptIdle

NextGsp == \E code \in GspCodes : CallGsp(code)

SpecGsp == InitGsp /\ [][NextGsp]_vars

\* the runs of merge_burst and merge_tiles: an index of at most MaxRows
\* rows, present or not, named after a known or an unknown AOI; an output
\* directory given as an absolute or a relative path, new or existing; the
\* clip file given or not; each output format
MaxRows == 2

OutDirs == {"out", "/tmp"}

InputFiles == {a.path : a \in Archives} \cup {ClipFile}

InputDirs ==
  {"/d", BurstDir, TileDir, TreaDir, "/d/aoi", "/d/grid", "/d/AOIs_bursts",
   "/d/AOIs_tiles", "/tmp"}

IndexFiles(s) ==
  IF s = "merge_burst"
    THEN {"/d/AOIs_bursts/sicilia.shp", "/d/AOIs_bursts/etna.shp"}
    ELSE {"/d/AOIs_tiles/sicilia.shp", "/d/AOIs_tiles/etna.shp"}

IndexFrames(s) ==
  IF s = "merge_burst"
    THEN {[cols |-> BurstIndexCols, rows |-> r, crs |-> 4326] :
            r \in SeqsUpTo(BurstIndexRows, MaxRows)}
    ELSE {[cols |-> TileIndexCols, rows |-> r, crs |-> 3035] :
            r \in SeqsUpTo(TileIndexRows, MaxRows)}

InitMerge ==
  /\ AoiIdle /\ GspIdle
  /\ script \in {"merge_burst", "merge_tiles"}
  /\ args \in [index_file : IndexFiles(script), out_dir : OutDirs,
               clip_aoi : {"", ClipFile}, format : {"csv", "parquet", "shp"}]
  /\ \E there \in BOOLEAN :
       /\ present = InputFiles \cup (IF there THEN {args.index_file} ELSE {})
       /\ index \in (IF there THEN IndexFrames(script) ELSE {EmptyFrame})
  /\ dirs = InputDirs
  /\ disk = <<>>
  /\ pc = "start"
  /\ exc = ""
  /\ loc = LocInit
  /\ gdf = EmptyFrame
  /\ steps = <<>>
  /\ made = <<>>
  /\ result = NotCalled
  /\ tree = NoTree

NextMerge == MergeBurstNext \/ MergeTilesNext

SpecMerge == InitMerge /\ [][NextMerge]_vars

\* the runs of the five scripts: those of merge_burst and merge_tiles above;
\* index_bursts and index_tiles with each input file present or not, the
\* data directory a directory, missing, or a file, and at most MaxRows
\* footprints (the tile footprints with or without a column 'overlap');
\* process_trea with the input directory present or not and any of the
\* delivered archives in it
Footprints(s) ==
  IF s = "index_bursts"
    THEN {[cols |-> {"Name", "Track", "Burst", "Subswath", "geometry"},
           rows |-> r, crs |-> 4326] : r \in SeqsUpTo(BurstFootprints, MaxRows)}
    ELSE UNION {{[cols |-> cols,
                  rows |-> [i \in DOMAIN r |-> [c \in cols |-> r[i][c]]],
                  crs |-> 3035] : r \in SeqsUpTo(TileFootprints, MaxRows)} :
                cols \in {{"Name", "geometry"}, {"Name", "geometry", "overlap"}}}

IndexArgs(s) ==
  IF s = "index_bursts"
    THEN [burst_file : {BurstFile}, aoi : {AoiFile},
          burst_dir : {BurstDir, "/d/none", ClipFile}]
    ELSE [tile_file : {TileFile}, aoi : {AoiFile},
          tile_dir : {TileDir, "/d/none", ClipFile}]

InitIndex ==
  /\ AoiIdle /\ GspIdle
  /\ script \in {"index_bursts", "index_tiles"}
  /\ args \in IndexArgs(script)
  /\ \E given \in SUBSET {"footprints", "aoi"} :
       /\ present = InputFiles
            \cup (IF "aoi" \in given THEN {AoiFile} ELSE {})
            \cup (IF "footprints" \in given
                    THEN {IF script = "index_bursts" THEN BurstFile ELSE TileFile}
                    ELSE {})
       /\ index \in (IF "footprints" \in given THEN Footprints(script)
                      ELSE {EmptyFrame})
  /\ dirs = InputDirs
  /\ disk = <<>>
  /\ pc = "start"
  /\ exc = ""
  /\ loc = LocInit
  /\ gdf = EmptyFrame
  /\ steps = <<>>
  /\ made = <<>>
  /\ result = NotCalled
  /\ tree = NoTree

InitTrea ==
  /\ AoiIdle /\ GspIdle
  /\ script = "process_trea"
  /\ args \in [in_dir : {TreaDir, "/d/none"}, out_dir : {"/out", "/tmp"}]
  /\ \E delivered \in SUBSET Deliveries :
       present = InputFiles \cup {a.path : a \in delivered}
  /\ index = EmptyFrame
  /\ dirs = InputDirs
  /\ disk = <<>>
  /\ pc = "start"
  /\ exc = ""
  /\ loc = LocInit
  /\ gdf = EmptyFrame
  /\ steps = <<>>
  /\ made = <<>>
  /\ result = NotCalled
  /\ tree = NoTree

InitScripts == InitMerge \/ InitIndex \/ InitTrea

NextScripts ==
  \/ MergeBurstNext \/ MergeTilesNext
  \/ IndexBurstsNext \/ IndexTilesNext \/ ProcessTreaNext

SpecScripts == InitScripts /\ [][NextScripts]_vars


(***************************************************************************)
(* index_bursts.py: orbit_direction called on its own, next to the runs    *)
(* of the script that calls it for every burst file                        *)
(***************************************************************************)
\* file names with the ascending pattern, the descending pattern, both in
\* either order, another letter between track and burst, and no pattern
OrbitNames ==
  {Basename(B1.path), Basename(B4.path),
   "ISS_S301SNT02_20180105_20221226_015X0123IW1C_01.zip",
   "015D0123IW1_015A0123IW1", "015A0123IW1_015D0123IW1", ""}

InitOrbitCall ==
  /\ AoiIdle /\ GspIdle
  /\ script = "orbit_direction"
  /\ args \in [f_name : OrbitNames, track : {"015", "117"},
               burst : {"0123", "0456"}, subswath : {"IW1", "IW2"}]
  /\ present = {}
  /\ index = EmptyFrame
  /\ dirs = {}
  /\ disk = <<>>
  /\ pc = "start"
  /\ exc = ""
  /\ loc = LocInit
  /\ gdf = EmptyFrame
  /\ steps = <<>>
  /\ made = <<>>
  /\ result = NotCalled
  /\ tree = NoTree

CallOrbitDirection ==
  /\ script = "orbit_direction" /\ pc = "start"
  /\ Returned(Ret(orbit_direction(args.f_name, args.track, args.burst,
                                  args.subswath)))
  /\ UNCHANGED <<aoiVars, gspVars, tree, script, args, present, index, dirs, disk,
                 loc, gdf, steps, made>>

InitOrbit == InitOrbitCall \/ (InitIndex /\ script = "index_bursts")

NextOrbit == CallOrbitDirection \/ IndexBurstsNext

SpecOrbit == InitOrbit /\ [][NextOrbit]_vars

(***************************************************************************)
(* iride_utils/add_meta_field.py: add_meta_field called on an element      *)
(***************************************************************************)
\* the dataset names of the three branches, and names without a branch
DatasetNames ==
  {"TINITALY", "Tinitaly", "Tinitaly-10", "OpenStreetMap", "OSM", "Copernicus",
   "CopDem", "tinitaly", "Cop-DEM", "SRTM", ""}

\* elements without child, with leaves, with an <input> and with children
\* of their own children
MetaTrees ==
  LET cop == add_meta_field(<<>>, "CopDem").value[1]
      osm == add_meta_field(<<>>, "OSM").value[1]
      gsp == [tag |-> "gsp", text |-> "",
              children |-> <<Leaf("gsp_id", "S301SNT01"),
                             Leaf("burst_id", "015A0123IW1")>>]
      kids == {<<>>, <<cop>>, <<osm, cop>>, <<gsp>>, <<cop, gsp>>, <<gsp, cop>>,
               <<Leaf("crs", "EPSG:3035")>>, <<Leaf("input", "")>>}
  IN  {[tag |-> t, text |-> x, children |-> k] :
         t \in {"dataset", "GSP"}, x \in {""}, k \in kids}

InitMeta ==
  /\ AoiIdle /\ GspIdle
  /\ script = "add_meta_field"
  /\ \E t \in MetaTrees :
       /\ tree = t
       /\ args \in [tree : {t}, dataset : DatasetNames]
  /\ present = {}
  /\ index = EmptyFrame
  /\ dirs = {}
  /\ disk = <<>>
  /\ pc = "start"
  /\ exc = ""
  /\ loc = LocInit
  /\ gdf = EmptyFrame
  /\ steps = <<>>
  /\ made = <<>>
  /\ result = NotCalled

\* lines 10-57: the element gets one more child, or the call raises
CallAddMetaField ==
  /\ script = "add_meta_field" /\ pc = "start"
  /\ LET added == add_meta_field(tree.children, args.dataset)
     IN  IF added.kind = "raise"
           THEN /\ Returned(added)
                /\ UNCHANGED tree
           ELSE /\ Returned(Ret(None))
                /\ tree' = [tree EXCEPT !.children = added.value]
  /\ UNCHANGED <<aoiVars, gspVars, script, args, present, index, dirs, disk,
                 loc, gdf, steps, made>>

NextMeta == CallAddMetaField

SpecMeta == InitMeta /\ [][NextMeta]_vars
(***************************************************************************)
(* Properties                                                              *)
(***************************************************************************)
AoiCalled == aoi_res # NotCalled

\* C1: for every AOI of the table, the extended name and the tag, in any
\* letter case, give the dictionary {aoi_tag, aoi_name} of that AOI.
C1_AnyCaseSameDict ==
  AoiCalled =>
    \A i \in DOMAIN AoiTable :
      (\E n \in AoiTable[i].names : Lower(aoi_arg) = Lower(n)) =>
        aoi_res = Ret([aoi_tag  |-> AoiTable[i].aoi_tag,
                       aoi_name |-> AoiTable[i].aoi_name])

\* C2: an argument whose lower-cased form is not a listed name or tag raises
\* ValueError and returns nothing; the outcome for an argument is the same
\* as at an earlier call of the run with that argument.
C2_UnknownRaises ==
  /\ (AoiCalled /\ Lower(aoi_arg) \notin AoiNames) =>
        /\ aoi_res.kind = "raise"
        /\ aoi_res.exc = "ValueError"
        /\ aoi_res.value = None
  /\ (AoiCalled /\ aoi_probe.res # NotCalled /\ aoi_probe.arg = aoi_arg) =>
        aoi_probe.res = aoi_res

C2_Witness ==
  /\ aoi_arg = "roma"
  /\ aoi_res = Raise("ValueError")
  /\ aoi_probe.arg = "roma"
  /\ aoi_probe.res = Raise("ValueError")

\* C3: gsp_description, gsp_metadata and gsp_d_type each return the same
\* value for the dashed and for the undashed form of a product code.
C3_DashedUndashedAlias ==
  gsp_code # "" =>
    /\ gsp_dashed.description = gsp_undashed.description
    /\ gsp_dashed.metadata = gsp_undashed.metadata
    /\ gsp_dashed.d_type = gsp_undashed.d_type


\* the merged data and the metadata tree stored in an archive of the run
DataIn(zip) == disk[zip].members[2].content.frame

RootIn(zip) == disk[zip].members[1].content.root

\* the coordinate pair a script deduplicates by
PairOf(r) ==
  IF script = "merge_burst" THEN <<r["latitude"], r["longitude"]>>
  ELSE <<r["easting"], r["northing"]>>

\* C4: for each Ortho value the merged data of merge_tiles hold every data
\* point of every tile archive listed for it in the index (inside the clip
\* polygon when one is given), and hold no row of the index.
C4_MergesAllTiles ==
  script = "merge_tiles" =>
    \A k \in DOMAIN made :
      LET data == DataIn(made[k].zip)
          tiles == Where(index.rows, LAMBDA r : r["Path"] # "None"
                                              /\ r["Ortho"] = made[k].key[1])
          kept(g) == args.clip_aoi = "" \/ Meets(g, ClipMask(3035))
      IN  /\ \A i \in DOMAIN tiles :
               LET tile == read_as_geodataframe(tiles[i]["Path"])
               IN  \A j \in DOMAIN tile.rows :
                     kept(tile.rows[j]["geometry"]) =>
                       \E d \in DOMAIN data.rows :
                          /\ data.rows[d]["easting"] = tile.rows[j]["easting"]
                          /\ data.rows[d]["northing"] = tile.rows[j]["northing"]
          /\ "Path" \notin data.cols

\* C5: merge_burst writes one archive per (track, type) pair that has an
\* index row with a file, tracks in index order and types in the order C, B,
\* None, nothing for the other pairs, and reads for a pair the files of its
\* rows only.
C5_Pairs ==
  LET tracks == Unique(Column(index.rows, "Track"))
      types == <<"C", "B", "None">>
  IN  [n \in 1..(3 * Len(tracks)) |->
         <<tracks[((n - 1) \div 3) + 1], types[((n - 1) % 3) + 1]>>]

C5_Files(pair) ==
  Column(Where(index.rows, LAMBDA r : /\ r["Track"] = pair[1]
                                      /\ r["c_type"] = pair[2]
                                      /\ r["Path"] # "None"), "Path")

C5_Expected ==
  Pick(C5_Pairs, {n \in DOMAIN C5_Pairs : Len(C5_Files(C5_Pairs[n])) > 0}, 1)

C5_OneArchivePerGroup ==
  script = "merge_burst" =>
    /\ Len(made) <= Len(C5_Expected)
    /\ \A k \in DOMAIN made :
         /\ made[k].key = C5_Expected[k]
         /\ made[k].read = C5_Files(made[k].key)
         /\ made[k].zip \in DOMAIN disk
         /\ \A j \in DOMAIN made : j # k => made[j].zip # made[k].zip
    /\ pc = "done" /\ Exists(args.index_file) => Len(made) = Len(C5_Expected)

C5_Witness ==
  /\ script = "merge_burst" /\ pc = "done"
  /\ Len(made) = 2
  /\ made[1].key = <<"015", "C">> /\ made[2].key = <<"015", "B">>

\* C6: the data written hold no two rows with the same coordinate pair; the
\* row kept for a pair is the first with that pair in concatenation order;
\* this holds with and without the clip.
C6_Deduplicated ==
  script \in {"merge_burst", "merge_tiles"} /\ pc = "xml" =>
    LET data == disk[loc.out_file].frame
        all == loc.concat.rows
    IN  /\ \A i, j \in DOMAIN data.rows :
             i # j => PairOf(data.rows[i]) # PairOf(data.rows[j])
        /\ \A i \in DOMAIN data.rows :
             \E n \in DOMAIN all :
                /\ PairOf(all[n]) = PairOf(data.rows[i])
                /\ all[n]["pid"] = data.rows[i]["pid"]
                /\ \A m \in 1..(n - 1) : PairOf(all[m]) # PairOf(all[n])

C6_Witness ==
  /\ script = "merge_burst" /\ pc = "xml" /\ args.clip_aoi # ""
  /\ \E m, n \in DOMAIN loc.concat.rows :
        /\ m < n
        /\ PairOf(loc.concat.rows[m]) = PairOf(loc.concat.rows[n])
        /\ loc.concat.rows[m]["pid"] # loc.concat.rows[n]["pid"]
  /\ Len(disk[loc.out_file].frame.rows) > 0

\* C7: after the intermediate files of a merge group are removed, the only
\* files the run has left are zip archives, for each output format.
C7_OnlyZipRemains ==
  script \in {"merge_burst", "merge_tiles"}
    /\ steps # <<>> /\ steps[Len(steps)] = "remove" =>
      \A p \in DOMAIN disk : disk[p].kind = "zip"

\* C8: an archive has exactly two members, the metadata XML and the merged
\* data file, each under a name without directory part, and the archive and
\* both members have the same stem.
C8_TwoMembersSameStem ==
  \A p \in DOMAIN disk :
    disk[p].kind = "zip" =>
      LET m == disk[p].members
      IN  /\ Len(m) = 2
          /\ m[1].content.kind = "xml"
          /\ m[2].content.kind \in {"csv", "parquet", "shp"}
          /\ m[1].name = Stem(p) \o ".xml"
          /\ m[2].name = Stem(p) \o "." \o m[2].content.kind
          /\ \A i \in 1..2 : FindFrom(m[i].name, "/", 1) = 0

C8_Witness ==
  /\ script = "merge_tiles" /\ pc = "remove"
  /\ \E p \in DOMAIN disk : disk[p].kind = "zip" /\ Suffix(p) = ".zip"

\* C9: the steps of a merge group of merge_burst happen in the order load,
\* deduplicate, clip (if a polygon is given), write the data, write the XML,
\* zip, remove, none skipped; the bounding box of the XML is that of the
\* concatenated data after deduplication and clip, in EPSG:4326.
C9_Order ==
  IF args.clip_aoi # ""
    THEN <<"load", "dedup", "clip", "write", "xml", "zip", "remove">>
    ELSE <<"load", "dedup", "write", "xml", "zip", "remove">>

C9_StepsInOrder ==
  script = "merge_burst" =>
    /\ Len(steps) <= Len(C9_Order)
    /\ \A i \in DOMAIN steps : steps[i] = C9_Order[i]
    /\ pc = "group" /\ made # <<>> => steps = C9_Order
    /\ pc = "zip" =>
         LET unique == DropDuplicates(loc.concat, {"latitude", "longitude"})
             final == IF args.clip_aoi # ""
                        THEN Clip(unique, ClipMask(unique.crs)) ELSE unique
         IN  disk[loc.metadata_path].root.bbox = TotalBounds(ToCrs(final, 4326))

C9_Witness ==
  /\ script = "merge_burst" /\ pc = "zip" /\ args.clip_aoi # ""
  /\ Len(loc.read) = 2
  /\ Len(DropDuplicates(loc.concat, {"latitude", "longitude"}).rows)
       < Len(loc.concat.rows)
  /\ TotalBounds(ToCrs(loc.concat, 4326)) # disk[loc.metadata_path].root.bbox

\* the required input files and directories of a run that do not exist
C10_Missing ==
  LET there(p) == p \in present \/ p \in dirs
  IN  IF script \in {"merge_burst", "merge_tiles"}
        THEN {p \in {args.index_file} : ~there(p)}
      ELSE IF script = "index_bursts"
        THEN {p \in {args.burst_file, args.aoi, args.burst_dir} : ~there(p)}
      ELSE IF script = "index_tiles"
        THEN {p \in {args.tile_file, args.aoi, args.tile_dir} : ~there(p)}
      ELSE IF script = "process_trea"
        THEN {p \in {args.in_dir} : ~there(p)}
      ELSE {}

IndexScripts == {"index_bursts", "index_tiles"}

\* the footprints file, the AOI file and the data directory of the run are
\* there, and the data directory is a directory
IndexInputsThere ==
  /\ script \in IndexScripts
  /\ args.aoi \in present
  /\ IF script = "index_bursts"
       THEN args.burst_file \in present /\ args.burst_dir \in dirs
       ELSE args.tile_file \in present /\ args.tile_dir \in dirs

\* no footprint of the footprints file meets the AOI polygon
C11_NoFootprintMeets ==
  \A i \in DOMAIN index.rows :
     ~Meets(ToCrs(index, 4326).rows[i]["geometry"], ClipPolygon)

C12_Joined ==
  Where(ToCrs(index, 4326).rows, LAMBDA r : Meets(r["geometry"], ClipPolygon))

\* the '.zip' files of the burst directory whose name matches a footprint,
\* in listing order
C12_Files(row) ==
  Where(loc.listing,
        LAMBDA f : /\ ContainsThen(f, row["Track"], row["Burst"] \o row["Subswath"])
                   /\ EndsWith(f, ".zip"))

\* the footprint and the path of the index rows due for the first n
\* footprints: one row per matching file, or one row with Path 'None'
RECURSIVE C12_Expected(_)
C12_Expected(n) ==
  IF n = 0 THEN <<>>
  ELSE LET row == C12_Joined[n]
           files == C12_Files(row)
       IN  C12_Expected(n - 1) \o
             (IF Len(files) = 0 THEN <<[of |-> row, Path |-> "None"]>>
              ELSE [bi \in DOMAIN files |->
                      [of |-> row, Path |-> PathJoin(args.burst_dir, files[bi])]])

C12_IndexFile ==
  PathJoin(PathJoin(Dirname(args.burst_dir), "AOIs_bursts"), Basename(args.aoi))

\* C12: after every iteration of the loop of index_bursts the ten lists have
\* one length and hold, for each footprint handled so far, one entry per
\* matching '.zip' file of the burst directory (all of them, in listing
\* order) or one placeholder entry whose Orbit_Dir, Path, start_date,
\* end_date and c_type are 'None'; the index written holds these rows for
\* every footprint that intersects the AOI.
C12_RowsPerFile ==
  script = "index_bursts" /\ pc \in {"scan", "save", "done"} =>
    LET lists == loc.lists
        due == C12_Expected(loc.ki - 1)
    IN  /\ \A c \in DOMAIN lists : Len(lists[c]) = Len(due)
        /\ \A i \in DOMAIN due :
             /\ lists["Path"][i] = due[i].Path
             /\ \A c \in {"Name", "Track", "Burst", "Subswath", "geometry"} :
                  lists[c][i] = due[i].of[c]
             /\ (due[i].Path = "None") <=>
                  (\A c \in {"Orbit_Dir", "Path", "start_date", "end_date", "c_type"} :
                     lists[c][i] = "None")
        /\ pc \in {"save", "done"} => loc.ki - 1 = Len(C12_Joined)
        /\ pc = "done" =>
             /\ C12_IndexFile \in DOMAIN disk
             /\ disk[C12_IndexFile].frame.cols = DOMAIN lists
             /\ \A c \in DOMAIN lists :
                  Column(disk[C12_IndexFile].frame.rows, c) = lists[c]

\* an index with two rows for one footprint (a 'B' and a 'C' file) and a
\* placeholder row for another
C12_Witness ==
  /\ script = "index_bursts" /\ pc = "done"
  /\ C12_IndexFile \in DOMAIN disk
  /\ \E i, j, k \in DOMAIN disk[C12_IndexFile].frame.rows :
       LET r == disk[C12_IndexFile].frame.rows
       IN  /\ i # j /\ r[i]["Name"] = r[j]["Name"]
           /\ r[i]["c_type"] = "C" /\ r[j]["c_type"] = "B"
           /\ r[k]["Path"] = "None"

\* the footprints of index_tiles that intersect the AOI, in EPSG:3035
C13_Joined == ToCrs(SJoin(ToCrs(index, 4326), ClipPolygon), 3035).rows

C13_IndexFile ==
  PathJoin(PathJoin(Dirname(args.tile_dir), "AOIs_tiles"), Basename(args.aoi))

\* the '.zip' files of the tile directory for a footprint and a direction,
\* in listing order
C13_Files(row, ort) ==
  Where(loc.listing,
        LAMBDA f : /\ Contains(f, TileId(row["geometry"]) \o ort)
                   /\ EndsWith(f, ".zip"))

\* Path, start_date and end_date due for a footprint and a direction
C13_Due(row, ort) ==
  IF Len(C13_Files(row, ort)) = 0
    THEN [Path |-> "None", start_date |-> "None", end_date |-> "None"]
    ELSE LET f == C13_Files(row, ort)[1]
             meta == extract_xml_from_zip(PathJoin(args.tile_dir, f)).list[1]
         IN  [Path |-> PathJoin(args.tile_dir, f),
              start_date |-> IF "start_date" \in DOMAIN meta
                               THEN meta.start_date ELSE Split(f, "_")[3],
              end_date |-> IF "start_date" \in DOMAIN meta
                             THEN meta.end_date ELSE Split(f, "_")[4]]

\* C13: the index written by index_tiles has two rows per footprint that
\* intersects the AOI: the rows of direction 'V' first, then the rows of
\* direction 'E', each group in join order; Path, start_date and end_date of
\* a row are those of the first matching '.zip' file of the tile directory,
\* and 'None' when there is none.
C13_TwoRowsPerTile ==
  script = "index_tiles" /\ pc = "done" =>
    LET n == Len(C13_Joined)
        saved == disk[C13_IndexFile].frame.rows
        dir(i) == IF i <= n THEN "V" ELSE "E"
        of(i) == C13_Joined[IF i <= n THEN i ELSE i - n]
    IN  /\ Len(saved) = 2 * n
        /\ \A i \in DOMAIN saved :
             /\ saved[i]["Ortho"] = dir(i)
             /\ saved[i]["Name"] = of(i)["Name"]
             /\ saved[i]["geometry"] = of(i)["geometry"]
             /\ \A c \in {"Path", "start_date", "end_date"} :
                  saved[i][c] = C13_Due(of(i), dir(i))[c]

\* two footprints; the first has two 'V' archives and one 'E' archive, one
\* row of the index has no archive
C13_Witness ==
  /\ script = "index_tiles" /\ pc = "done"
  /\ Len(C13_Joined) = 2
  /\ Len(C13_Files(C13_Joined[1], "V")) = 2
  /\ \E i \in DOMAIN disk[C13_IndexFile].frame.rows :
       disk[C13_IndexFile].frame.rows[i]["Path"] = "None"
  /\ disk[C13_IndexFile].frame.rows[3]["Path"] # "None"

\* the index file of a run of index_bursts or index_tiles
IndexFileOfRun ==
  IF script = "index_bursts" THEN C12_IndexFile ELSE C13_IndexFile

\* C14: the index saved by index_bursts and by index_tiles has no column
\* named 'overlap'; the other columns of the index dataframe are all saved.
C14_OverlapRemoved ==
  script \in IndexScripts /\ pc = "done" =>
    /\ "overlap" \notin disk[IndexFileOfRun].frame.cols
    /\ index.cols \ {"overlap"} \subseteq disk[IndexFileOfRun].frame.cols

(***************************************************************************)
(* Properties of read_as_geodataframe and extract_xml_from_zip             *)
(***************************************************************************)
ReadCalled == script = "read_as_geodataframe" /\ pc # "start"

\* the read that the extension of the path selects fails
C15_ReadFails ==
  \/ FileAt(args.path).kind = "absent"
  \/ FileAt(args.path).kind # DropFirst(Suffix(args.path), 1)
  \/ ReadBySuffix(args.path).kind = "raise"

XmlCalled == script = "extract_xml_from_zip" /\ pc # "start"

\* the members of the archive at the path whose name ends with '.xml', in
\* the order of the member list
C17_XmlMembers ==
  LET m == disk[args.path].members
  IN  Pick(m, {i \in DOMAIN m :
                 Len(m[i].name) >= 4
                   /\ SubSeq(m[i].name, Len(m[i].name) - 3, Len(m[i].name)) = ".xml"}, 1)

C17_IsArchive == args.path \in DOMAIN disk /\ disk[args.path].kind = "zip"

\* C17: for a zip archive whose '.xml' members are well-formed,
\* extract_xml_from_zip returns a list with one entry per member whose name
\* ends with '.xml', the dictionary of that member, in the order of the
\* member list; the other members add nothing and an archive without such a
\* member gives the empty list.
C17_OneDictPerXmlMember ==
  XmlCalled /\ C17_IsArchive
    /\ (\A i \in DOMAIN C17_XmlMembers : C17_XmlMembers[i].content.kind = "xml") =>
      /\ pc = "done" /\ result # None
      /\ Len(result.list) = Len(C17_XmlMembers)
      /\ \A i \in DOMAIN C17_XmlMembers :
           result.list[i] = xml_to_dict(C17_XmlMembers[i].content.root)

\* an archive with two '.xml' members and another member between them
C17_Witness ==
  /\ XmlCalled /\ C17_IsArchive /\ pc = "done"
  /\ Len(disk[args.path].members) = 3
  /\ disk[args.path].members[1].name = "b.xml"
  /\ disk[args.path].members[2].name = "p1.csv"
  /\ disk[args.path].members[3].name = "a.xml"
  /\ Len(result.list) = 2
  /\ result.list[1].product_id = "S3-01-SNT-04"
  /\ result.list[2].product_id = "S3-01-SNT-02"

(***************************************************************************)
(* Properties of list_bucket_content                                       *)
(***************************************************************************)
DirectionCalled == script = "get_gsp_direction" /\ pc # "start"

CalibratedCalled == script = "get_calibrated_gsp_id" /\ pc # "start"

\* C18: for a service id that is none of SE-S3-01 ... SE-S3-06 (SE-S3-07 is
\* such an id) get_gsp_direction returns 'NA' for every gsp id and every
\* processing string, the empty one too, and reads no character of it.
C18_OtherServiceNA ==
  DirectionCalled
    /\ args.svc_id \notin {"SE-S3-01", "SE-S3-02", "SE-S3-03", "SE-S3-04",
                           "SE-S3-05", "SE-S3-06"} =>
      /\ pc = "done" /\ result = Ret("NA")
      /\ ~DirectionPosition(args.processing, args.svc_id, args.gsp_id).read

C18_Witness ==
  /\ DirectionCalled /\ args.svc_id = "SE-S3-07" /\ args.processing = ""
  /\ args.gsp_id = "S3-01-SNT-03"
  /\ result = Ret("NA")

\* C19: a call of get_calibrated_gsp_id that returns gives 'Yes', 'No' or
\* 'NA'; for SE-S3-01 it returns 'Yes' for the gsp ids S3-01-SNT-02, -03 and
\* -04 and 'No' for every other; for SE-S3-04 it returns 'No'; for SE-S3-07
\* and for a service id it does not know it returns 'NA'; in these cases
\* for every processing string, the empty one too.
C19_CalibratedFlag ==
  CalibratedCalled =>
    /\ pc = "done" => result.value \in {"Yes", "No", "NA"}
    /\ args.svc_id = "SE-S3-01" =>
         /\ pc = "done"
         /\ result.value =
              (IF args.gsp_id \in {"S3-01-SNT-02", "S3-01-SNT-03", "S3-01-SNT-04"}
                 THEN "Yes" ELSE "No")
    /\ args.svc_id = "SE-S3-04" => pc = "done" /\ result.value = "No"
    /\ args.svc_id \notin {"SE-S3-01", "SE-S3-02", "SE-S3-03", "SE-S3-04",
                           "SE-S3-05", "SE-S3-06"} =>
         pc = "done" /\ result.value = "NA"

C19_Witness ==
  /\ CalibratedCalled /\ args.svc_id = "SE-S3-01" /\ args.processing = ""
  /\ args.gsp_id = "S3-01-SNT-04"
  /\ result = Ret("Yes")

\* the keys of the bucket the report is to list: those that hold the
\* sub-directory when one is given, do not end with '/' and whose part after
\* the last dot is not DS_Store, qml or sld
C20_Listed ==
  Where(Column(index.rows, "Key"),
        LAMBDA k : /\ args.sub_dir = <<>> \/ Contains(k, args.sub_dir[1])
                   /\ ~EndsWith(k, "/")
                   /\ Split(k, ".")[Len(Split(k, "."))] \notin {"DS_Store", "qml", "sld"})

\* C20: the report of list_bucket_content has one row, in listing order,
\* for each object of the bucket whose key does not end with '/' and does
\* not have the suffix DS_Store, qml or sld; a sub-directory restricts the
\* rows to the keys that hold it, and without one every such object is
\* reported; the lists have one length after every iteration.
C20_ReportsBucketContent ==
  script = "list_bucket_content" =>
    /\ pc \in {"scan", "save", "done"} =>
         \A c, d \in DOMAIN loc.lists : Len(loc.lists[c]) = Len(loc.lists[d])
    /\ pc = "done" =>
         Column(disk[ReportPath].frame.rows, "GSP_Path") = C20_Listed

\* ---------------------------------------------------------------------
\* The dates of the delivery report
\* ---------------------------------------------------------------------

\* the rows of the report that a finished run has written
ReportRows ==
  IF script = "list_bucket_content" /\ pc = "done"
    THEN disk[ReportPath].frame.rows ELSE <<>>

\* the part of the period field of a key: 1 for the start, 2 for the end
C21_Period(key_name, part) == Split(Split(key_name, "/")[4], "_")[part]

\* the 15th of the month and year that the first six characters of a
\* period part encode, written dd/mm/yyyy
C21_Fifteenth(yyyymmdd) ==
  "15/" \o SubSeq(yyyymmdd, 5, 6) \o "/" \o SubSeq(yyyymmdd, 1, 4)

\* C21: in every row of the report of list_bucket_content, Start_Date and
\* End_Date are the 15th of the month and year of the two parts of the
\* period field of the key, Delivery_Date is 15/03/2024, and
\* Scheduled_Delivery_Date is 01/02/2024 exactly for the service SE-S3-01
\* and 15/02/2024 for every other service.
C21_ReportDates ==
  \A i \in DOMAIN ReportRows :
    LET row == ReportRows[i]
    IN  /\ row.Start_Date = C21_Fifteenth(C21_Period(row.GSP_Path, 1))
        /\ row.End_Date = C21_Fifteenth(C21_Period(row.GSP_Path, 2))
        /\ row.Delivery_Date = "15/03/2024"
        /\ row.SVC_ID = Split(row.GSP_Path, "/")[2]
        /\ row.Scheduled_Delivery_Date =
             (IF row.SVC_ID = "SE-S3-01" THEN "01/02/2024" ELSE "15/02/2024")

\* a report with a row of the service SE-S3-01 and a row of another service
C21_Witness ==
  /\ Len(ReportRows) = 2
  /\ ReportRows[1].SVC_ID = "SE-S3-04"
  /\ ReportRows[1].Start_Date = "15/01/2020"
  /\ ReportRows[1].Scheduled_Delivery_Date = "15/02/2024"
  /\ ReportRows[2].SVC_ID = "SE-S3-01"
  /\ ReportRows[2].End_Date = "15/12/2022"
  /\ ReportRows[2].Scheduled_Delivery_Date = "01/02/2024"

\* ---------------------------------------------------------------------
\* The <dataset> element of the metadata of merge_burst
\* ---------------------------------------------------------------------

\* the burst files of the merge group at hand, in index order
C22_Files ==
  Column(Where(index.rows,
               LAMBDA r : /\ r["Track"] = loc.keys[loc.ki]
                          /\ r["Path"] # "None"
                          /\ r["c_type"] = CTypes[loc.ci]),
         "Path")

\* the burst_id that the metadata file of an archive states
C22_BurstId(path) ==
  LET kids == ArchiveAt(path).xml.children
  IN  kids[CHOOSE i \in DOMAIN kids : kids[i].tag = "burst_id"].text

\* the fifth '_'-separated field of the name of a burst file
C22_Field5(path) == Split(Stem(path), "_")[5]

\* C22: the <dataset> element of the XML of merge_burst holds first one
\* <input> element per entry of gsp_metadata(product id), then one <gsp>
\* element per burst file of the merge group, in index order, each with
\* gsp_id, product_id, burst_id and description; the gsp_id is S301SNT01
\* when the fifth field of the file name ends with 'B' and S301SNT02
\* otherwise, so the bursts of a group of type 'B' are recorded as
\* S301SNT01 and those of a group of type 'C' as S301SNT02.
C22_DatasetListsInputs ==
  script = "merge_burst" /\ pc = "zip" =>
    LET root == disk[loc.metadata_path].root
        n == Len(gsp_metadata(root.gsp_id))
    IN  /\ Len(root.dataset) = n + Len(C22_Files)
        /\ \A i \in 1..n : root.dataset[i].tag = "input"
        /\ \A j \in DOMAIN C22_Files :
             LET gsp == root.dataset[n + j]
             IN  /\ DOMAIN gsp = {"tag", "gsp_id", "product_id", "burst_id",
                                  "description"}
                 /\ gsp.tag = "gsp"
                 /\ gsp.burst_id = C22_BurstId(C22_Files[j])
                 /\ gsp.gsp_id = (IF EndsWith(C22_Field5(C22_Files[j]), "B")
                                    THEN "S301SNT01" ELSE "S301SNT02")
                 /\ CTypes[loc.ci] = "B" => gsp.gsp_id = "S301SNT01"
                 /\ CTypes[loc.ci] = "C" => gsp.gsp_id = "S301SNT02"
                 /\ gsp.description = gsp_description(gsp.gsp_id)

\* the XML of a group of type 'C' with two burst files, the later file of
\* the directory first in the index
C22_Witness ==
  /\ script = "merge_burst" /\ pc = "zip" /\ CTypes[loc.ci] = "C"
  /\ C22_Files = <<B2.path, B1.path>>
  /\ LET ds == disk[loc.metadata_path].root.dataset
     IN  /\ Len(ds) = 3
         /\ ds[1].tag = "input"
         /\ ds[2].burst_id = "015A0124IW1" /\ ds[2].gsp_id = "S301SNT02"
         /\ ds[3].burst_id = "015A0123IW1"

\* ---------------------------------------------------------------------
\* The orbit direction of a burst file
\* ---------------------------------------------------------------------

\* a name holds a pattern at some position
C23_Holds(f_name, pattern) ==
  \E i \in 1..(Len(f_name) - Len(pattern) + 1) :
     SubSeq(f_name, i, i + Len(pattern) - 1) = pattern

C23_Pattern(letter) == args.track \o letter \o args.burst \o args.subswath

\* the entries of the lists of index_bursts, and the rows it has written
C23_Entries ==
  IF script = "index_bursts" /\ pc \in {"scan", "save"}
    THEN [i \in DOMAIN loc.lists["Path"] |->
            [Orbit_Dir |-> loc.lists["Orbit_Dir"][i], Path |-> loc.lists["Path"][i]]]
  ELSE IF script = "index_bursts" /\ pc = "done"
    THEN [i \in DOMAIN disk[IndexFileOfRun].frame.rows |->
            [Orbit_Dir |-> disk[IndexFileOfRun].frame.rows[i]["Orbit_Dir"],
             Path |-> disk[IndexFileOfRun].frame.rows[i]["Path"]]]
  ELSE <<>>

\* C23: orbit_direction returns 'A' when the file name holds
\* track+'A'+burst+subswath, otherwise 'D' when it holds
\* track+'D'+burst+subswath, otherwise 'U', and nothing else; every
\* Orbit_Dir that index_bursts writes is 'A', 'D', 'U' or the placeholder
\* 'None', the last only for a burst without file.
C23_OrbitDirection ==
  /\ script = "orbit_direction" /\ pc # "start" =>
       /\ pc = "done"
       /\ result.value \in {"A", "D", "U"}
       /\ result.value =
            (IF C23_Holds(args.f_name, C23_Pattern("A")) THEN "A"
             ELSE IF C23_Holds(args.f_name, C23_Pattern("D")) THEN "D"
             ELSE "U")
  /\ \A i \in DOMAIN C23_Entries :
       /\ C23_Entries[i].Orbit_Dir \in {"A", "D", "U", "None"}
       /\ C23_Entries[i].Orbit_Dir = "None" => C23_Entries[i].Path = "None"

\* a name with both patterns, the descending one first, is ascending
C23_Witness ==
  /\ script = "orbit_direction" /\ pc = "done"
  /\ args.f_name = "015D0123IW1_015A0123IW1"
  /\ C23_Holds(args.f_name, C23_Pattern("D"))
  /\ result = Ret("A")

\* ---------------------------------------------------------------------
\* add_meta_field
\* ---------------------------------------------------------------------

\* the dataset names that add_meta_field recognises
C24_Recognised ==
  {"TINITALY", "Tinitaly", "Tinitaly-10", "OpenStreetMap", "OSM", "Copernicus",
   "CopDem"}

\* C24: add_meta_field with a recognised dataset name appends one <input>
\* child to the element, with the children input_id, version, description
\* in this order, and changes nothing else of the tree; with another name
\* it raises ValueError and leaves the tree as it was.
C24_AppendsOneInput ==
  script = "add_meta_field" /\ pc # "start" =>
    IF args.dataset \in C24_Recognised
      THEN /\ pc = "done"
           /\ tree.tag = args.tree.tag /\ tree.text = args.tree.text
           /\ Len(tree.children) = Len(args.tree.children) + 1
           /\ SubSeq(tree.children, 1, Len(args.tree.children)) = args.tree.children
           /\ LET input == tree.children[Len(tree.children)]
              IN  /\ input.tag = "input"
                  /\ [i \in DOMAIN input.children |-> input.children[i].tag]
                       = <<"input_id", "version", "description">>
                  /\ \A i \in DOMAIN input.children :
                       input.children[i].children = <<>>
      ELSE /\ pc = "raised" /\ exc = "ValueError"
           /\ tree = args.tree

\* an element that had a <gsp> and an <input> child gets the <input> of
\* OpenStreetMap as its third child
C24_Witness ==
  /\ script = "add_meta_field" /\ pc = "done" /\ args.dataset = "OSM"
  /\ Len(args.tree.children) = 2 /\ args.tree.children[1].tag = "gsp"
  /\ Len(tree.children) = 3
  /\ tree.children[3].children[1] = Leaf("input_id", "S3-NEO-I09")
  /\ tree.children[3].children[2] = Leaf("version", "OpenStreetMap")

\* ---------------------------------------------------------------------
\* The character positions that the two field functions read
\* ---------------------------------------------------------------------

C25_Services ==
  {"SE-S3-01", "SE-S3-02", "SE-S3-03", "SE-S3-04", "SE-S3-05", "SE-S3-06"}

\* C25: for the services SE-S3-01 to SE-S3-06, every gsp id and every
\* processing string of 8 characters or more, get_gsp_direction and
\* get_calibrated_gsp_id return a value: they read no position past the
\* end of the string, so that no call ends with IndexError.
C25_NoIndexError ==
  /\ (DirectionCalled \/ CalibratedCalled)
  /\ args.svc_id \in C25_Services
  /\ Len(args.processing) >= 8
  => pc = "done" /\ exc # "IndexError"
====
